---------------------------- MODULE Spec2Model ----------------------------
(***************************************************************************)
(* A model of jocari00/bingo-game: the ticket generator of src/game/main.py*)
(* and src/game/game.py, the win checks and the number drawer.             *)
(*                                                                         *)
(* Rows and columns keep the source's 0-based indices: a grid is a         *)
(* function [0..2 -> [0..8 -> Int]] whose empty cells hold None (-1).  Python *)
(* lists are sequences; the element at Python index j of list s is s[j+1]. *)
(***************************************************************************)
EXTENDS Integers, Sequences, FiniteSets, TLC

\* ------------------------------------------------------------------------
\* Bounds of the model
\* ------------------------------------------------------------------------
MaxSeed == 3
MaxCount == 2
MaxAttemptsArg == 2
TapeLen == 64
MaxWinSeed == 1
MaxDrawCalls == 92
MaxGivenSeed == 12
MaxBalance == 9
MaxSessionCalls == 3
MaxMisses == 1
MaxRounds == 2

\* ------------------------------------------------------------------------
\* Program constants
\* ------------------------------------------------------------------------
None == -1
TARGET_NUMBERS == 15
ROWS == 3
COLS == 9
MAX_PER_COL == 3
MIN_PER_COL == 1
TicketAttempts == 1000
GameAttemptsPerTicket == 50

Rows == 0 .. (ROWS - 1)
Cols == 0 .. (COLS - 1)

\* range(a, b) as a list
Range(a, b) == [i \in 1 .. (IF b > a THEN b - a ELSE 0) |-> a + i - 1]

\* s[j] with a 0-based index
At(s, j) == s[j + 1]

\* ------------------------------------------------------------------------
\* The random source (random.Random), an external collaborator.  It is a
\* deterministic stream of raw words fixed by the seed, held as a cyclic
\* script and a read position; `used` records that a word was consumed.
\* Seed 0 gives the constant stream, seed 1 a stream of period 3, every other
\* seed a Lehmer sequence.  Random(None) seeds from the system's entropy: any
\* of the streams.  Every function of the source reads the stream through
\* _randbelow alone (choice, sample and shuffle are built on it).
\* ------------------------------------------------------------------------
RECURSIVE LehmerTape(_, _)
LehmerTape(s, n) ==
    IF n = 0 THEN <<>>
    ELSE LET t == (s * 75) % 65537 IN <<t>> \o LehmerTape(t, n - 1)

Script(sd) ==
    IF sd = 1 THEN <<1, 2, 4>> ELSE LehmerTape((838 * sd) % 65537, TapeLen)

Seeded(sd) == [script |-> Script(sd), pos |-> 1, used |-> FALSE]

Seeds == 0 .. MaxSeed

\* a constructor that seeds itself from entropy whatever its argument
RandomIgnoresSeed(sd) == {Seeded(e) : e \in Seeds}

\* random.Random(seed): the set of sources the constructor may return
Random(sd) == IF sd = None THEN {Seeded(e) : e \in Seeds} ELSE {Seeded(sd)}

NoRnd == [script |-> <<>>, pos |-> 0, used |-> FALSE]

\* a stream on which every pass of main.py's generate_ticket_9x3 fails: its 31
\* words give columns 0..5 a second number (6 words), sample the 15 numbers (15
\* words) and place five two-number columns in rows 0 and 1 (10 words), which
\* leaves the sixth with row 2 alone; the next pass reads the same 31 words
StuckScript == <<0, 1, 2, 3, 4, 5>> \o [j \in 1 .. 15 |-> 0]
                   \o <<0, 1, 0, 1, 0, 1, 0, 1, 0, 1>>

Stuck == [script |-> StuckScript, pos |-> 1, used |-> FALSE]

\* the sources a caller may hand to generate_ticket_9x3(rnd=...)
GivenSources == {Seeded(sd) : sd \in 0 .. MaxGivenSeed} \cup {Stuck}

\* rnd._randbelow(n): the next raw word reduced to 0..n-1
Randbelow(rnd, n) ==
    [val |-> rnd.script[rnd.pos] % n,
     rnd |-> [rnd EXCEPT !.pos = (rnd.pos % Len(rnd.script)) + 1, !.used = TRUE]]

\* rnd.choice(seq)
Choice(rnd, seq) ==
    LET r == Randbelow(rnd, Len(seq)) IN [val |-> At(seq, r.val), rnd |-> r.rnd]

\* rnd.sample(population, k) for a population of at most 21 elements: the
\* pool branch of random.sample (pick pool[j], move the last live element
\* into the hole)
RECURSIVE SampleLoop(_, _, _, _, _)
SampleLoop(rnd, pool, i, k, result) ==
    IF i = k THEN [val |-> result, rnd |-> rnd]
    ELSE LET n == Len(pool)
             r == Randbelow(rnd, n - i)
         IN SampleLoop(r.rnd, [pool EXCEPT ![r.val + 1] = pool[n - i]],
                       i + 1, k, Append(result, At(pool, r.val)))

\* a sampler that draws with replacement (random.choices in place of sample)
RECURSIVE SampleWithReplacementLoop(_, _, _, _, _)
SampleWithReplacementLoop(rnd, pool, i, k, result) ==
    IF i = k THEN [val |-> result, rnd |-> rnd]
    ELSE LET r == Randbelow(rnd, Len(pool))
         IN SampleWithReplacementLoop(r.rnd, pool, i + 1, k,
                                      Append(result, At(pool, r.val)))

SampleWithReplacement(rnd, population, k) ==
    SampleWithReplacementLoop(rnd, population, 0, k, <<>>)

Sample(rnd, population, k) == SampleLoop(rnd, population, 0, k, <<>>)

\* ------------------------------------------------------------------------
\* Sorting
\* ------------------------------------------------------------------------
\* list.sort / sorted with a key: a stable sort (insertion from the left)
RECURSIVE InsertByKey(_, _, _)
InsertByKey(x, s, key) ==
    IF s = <<>> THEN <<x>>
    ELSE IF key[x] < key[Head(s)] THEN <<x>> \o s
    ELSE <<Head(s)>> \o InsertByKey(x, Tail(s), key)

RECURSIVE SortedByKey(_, _)
SortedByKey(s, key) ==
    IF s = <<>> THEN <<>>
    ELSE InsertByKey(s[Len(s)], SortedByKey(SubSeq(s, 1, Len(s) - 1), key), key)

\* sorted(list of integers)
Sorted(s) == SortedByKey(s, [x \in {s[i] : i \in DOMAIN s} |-> x])

\* min(list, key=...): the first element with the smallest key
RECURSIVE MinByKeyFrom(_, _, _, _)
MinByKeyFrom(s, i, best, key) ==
    IF i > Len(s) THEN best
    ELSE MinByKeyFrom(s, i + 1, IF key[s[i]] < key[best] THEN s[i] ELSE best, key)

MinByKey(s, key) == MinByKeyFrom(s, 2, s[1], key)

RECURSIVE SumOver(_, _)
SumOver(f, S) ==
    IF S = {} THEN 0
    ELSE LET x == CHOOSE y \in S : TRUE IN f[x] + SumOver(f, S \ {x})

\* ------------------------------------------------------------------------
\* Column ranges
\* ------------------------------------------------------------------------
\* the table as spec.md words it: column c from 10c+1, ten values wide
ColRangeAsSpecified(c) ==
    IF c = 0 THEN Range(1, 10)
    ELSE IF c = 8 THEN Range(81, 91)
    ELSE Range(10 * c + 1, 10 * c + 11)

\* _default_col_ranges()[c]
ColRange(c) ==
    IF c = 0 THEN Range(1, 10)
    ELSE IF c = 8 THEN Range(80, 91)
    ELSE Range(10 * c, 10 * c + 10)

EmptyGrid == [r \in Rows |-> [c \in Cols |-> None]]

\* ------------------------------------------------------------------------
\* main.py: generate_ticket_9x3
\* ------------------------------------------------------------------------
\* for _ in range(remaining): pick a column still below its cap, increment it
RECURSIVE MainDistribute(_, _, _)
MainDistribute(rnd, counts, n) ==
    IF n = 0 THEN [counts |-> counts, rnd |-> rnd]
    ELSE LET choices == SelectSeq(Range(0, COLS), LAMBDA i : counts[i] < MAX_PER_COL)
         IN IF choices = <<>> THEN [counts |-> counts, rnd |-> rnd]
            ELSE LET r == Choice(rnd, choices)
                 IN MainDistribute(r.rnd, [counts EXCEPT ![r.val] = @ + 1], n - 1)

\* the column samples left in the order sample returned them
RECURSIVE SampleColumnsUnsorted(_, _, _, _)
SampleColumnsUnsorted(rnd, counts, c, acc) ==
    IF c = COLS THEN [val |-> acc, rnd |-> rnd]
    ELSE LET s == Sample(rnd, ColRange(c), counts[c])
         IN SampleColumnsUnsorted(s.rnd, counts, c + 1, acc @@ (c :> s.val))

\* [sorted(rnd.sample(col_ranges[i], counts[i])) for i in range(COLS)]
RECURSIVE SampleColumns(_, _, _, _)
SampleColumns(rnd, counts, c, acc) ==
    IF c = COLS THEN [val |-> acc, rnd |-> rnd]
    ELSE LET s == Sample(rnd, ColRange(c), counts[c])
         IN SampleColumns(s.rnd, counts, c + 1, acc @@ (c :> Sorted(s.val)))

\* for row_idx, num in zip(chosen_rows_sorted, nums):
\*     grid[row_idx][col] = num; capacities[row_idx] -= 1
RECURSIVE MainPlaceColumn(_, _, _, _, _, _)
MainPlaceColumn(grid, capacities, col, rows, nums, i) ==
    IF i > Len(rows) \/ i > Len(nums)
    THEN [grid |-> grid, capacities |-> capacities]
    ELSE MainPlaceColumn([grid EXCEPT ![rows[i]][col] = nums[i]],
                         [capacities EXCEPT ![rows[i]] = @ - 1],
                         col, rows, nums, i + 1)

\* the placement loop over cols_order
RECURSIVE MainPlace(_, _, _, _, _, _, _)
MainPlace(rnd, counts, col_numbers, cols_order, i, capacities, grid) ==
    IF i > Len(cols_order)
    THEN [placement_failed |-> FALSE, grid |-> grid, capacities |-> capacities, rnd |-> rnd]
    ELSE LET col == cols_order[i]
             k == counts[col]
             available_rows == SelectSeq(Range(0, ROWS), LAMBDA r : capacities[r] > 0)
         IN IF Len(available_rows) < k
            THEN [placement_failed |-> TRUE, grid |-> grid,
                  capacities |-> capacities, rnd |-> rnd]
            ELSE LET s == Sample(rnd, available_rows, k)
                     p == MainPlaceColumn(grid, capacities, col, Sorted(s.val),
                                          col_numbers[col], 1)
                 IN MainPlace(s.rnd, counts, col_numbers, cols_order, i + 1,
                              p.capacities, p.grid)

NoGrid == <<>>

\* an attempt accepted without looking at how its placement ended
MainAcceptAlways(p) == TRUE

\* `if placement_failed: continue` and `if all(cap == 0 for cap in capacities)`
MainAccept(p) == ~p.placement_failed /\ \A r \in Rows : p.capacities[r] = 0

\* one pass of the body of `for attempt in range(1000)`
MainAttempt(rnd) ==
    LET d == MainDistribute(rnd, [c \in Cols |-> MIN_PER_COL],
                            TARGET_NUMBERS - COLS * MIN_PER_COL)
    IN IF SumOver(d.counts, Cols) # TARGET_NUMBERS
       THEN [ok |-> FALSE, grid |-> NoGrid, rnd |-> d.rnd]
       ELSE LET n == SampleColumns(d.rnd, d.counts, 0, <<>>)
                cols_order == SortedByKey(Range(0, COLS), [c \in Cols |-> 0 - d.counts[c]])
                p == MainPlace(n.rnd, d.counts, n.val, cols_order, 1,
                               [r \in Rows |-> TARGET_NUMBERS \div ROWS], EmptyGrid)
            IN IF MainAccept(p)
               THEN [ok |-> TRUE, grid |-> p.grid, rnd |-> p.rnd]
               ELSE [ok |-> FALSE, grid |-> NoGrid, rnd |-> p.rnd]

\* the passes lo .. hi - 1 of `for attempt in range(1000)`: the first half of
\* them, and the second half from the source the first half leaves if none of
\* its passes returned.  status "RuntimeError" says that no pass returned, which
\* for the whole range is the raise after the loop; passes counts the passes run.
RECURSIVE MainAttempts(_, _, _)
MainAttempts(rnd, lo, hi) ==
    IF hi <= lo
    THEN [status |-> "RuntimeError", grid |-> NoGrid, rnd |-> rnd, passes |-> 0]
    ELSE IF hi = lo + 1
    THEN LET a == MainAttempt(rnd)
         IN IF a.ok
            THEN [status |-> "return", grid |-> a.grid, rnd |-> a.rnd, passes |-> 1]
            ELSE [status |-> "RuntimeError", grid |-> NoGrid, rnd |-> a.rnd, passes |-> 1]
    ELSE LET mid == (lo + hi) \div 2
         IN CHOOSE out \in
                {IF first.status = "return" THEN first
                 ELSE LET second == MainAttempts(first.rnd, mid, hi)
                      IN [second EXCEPT !.passes = @ + first.passes] :
                    first \in {MainAttempts(rnd, lo, mid)}} : TRUE

\* a generate_ticket_9x3 that hands out an empty grid when no pass was accepted
MainGenerateTicketNoRaise(rnd) ==
    LET t == MainAttempts(rnd, 0, TicketAttempts)
    IN IF t.status = "return" THEN t
       ELSE [t EXCEPT !.status = "return", !.grid = EmptyGrid]

\* main.py: generate_ticket_9x3(rnd=rnd)
MainGenerateTicket(rnd) == MainAttempts(rnd, 0, TicketAttempts)

\* ------------------------------------------------------------------------
\* game.py: generate_ticket_9x3 after its distribution loop
\* ------------------------------------------------------------------------
\* for c in range(9): nums = rnd.sample(pool, counts[c]); nums.sort()
RECURSIVE GameSampleColumns(_, _, _, _)
GameSampleColumns(rnd, counts, c, acc) ==
    IF c = COLS THEN [val |-> acc, rnd |-> rnd]
    ELSE LET s == Sample(rnd, ColRange(c), counts[c])
         IN GameSampleColumns(s.rnd, counts, c + 1, acc @@ (c :> Sorted(s.val)))

\* cols_by_count[k]
ColsByCount(counts, k) == SelectSeq(Range(0, COLS), LAMBDA c : counts[c] = k)

\* an assignment that fills each column from row 0 down, without looking at
\* the row counts
RECURSIVE GameAssignTopRows(_, _, _, _, _)
GameAssignTopRows(counts, order, i, row_counts, rows_for_col) ==
    IF i > Len(order) THEN [row_counts |-> row_counts, rows_for_col |-> rows_for_col]
    ELSE LET c == order[i]
             idxs == Range(0, counts[c])
             rs == {idxs[j] : j \in DOMAIN idxs}
         IN GameAssignTopRows(counts, order, i + 1,
                       [r \in Rows |-> IF r \in rs THEN row_counts[r] + 1 ELSE row_counts[r]],
                       [rows_for_col EXCEPT ![c] = idxs])

\* the three assignment loops, over the columns of count 3, then 2, then 1
RECURSIVE GameAssign(_, _, _, _, _)
GameAssign(counts, order, i, row_counts, rows_for_col) ==
    IF i > Len(order) THEN [row_counts |-> row_counts, rows_for_col |-> rows_for_col]
    ELSE LET c == order[i]
             idxs == IF counts[c] = 3 THEN Range(0, ROWS)
                     ELSE IF counts[c] = 2
                          THEN SubSeq(SortedByKey(Range(0, ROWS), row_counts), 1, 2)
                          ELSE <<MinByKey(Range(0, ROWS), row_counts)>>
             rs == {idxs[j] : j \in DOMAIN idxs}
         IN GameAssign(counts, order, i + 1,
                       [r \in Rows |-> IF r \in rs THEN row_counts[r] + 1 ELSE row_counts[r]],
                       [rows_for_col EXCEPT ![c] = idxs])

\* for r_idx, r in enumerate(assigned_rows): grid[r][c] = nums[r_idx]
RECURSIVE GamePlaceColumn(_, _, _, _, _)
GamePlaceColumn(grid, c, assigned_rows, nums, i) ==
    IF i > Len(assigned_rows) THEN grid
    ELSE GamePlaceColumn([grid EXCEPT ![assigned_rows[i]][c] = nums[i]],
                         c, assigned_rows, nums, i + 1)

RECURSIVE GameBuild(_, _, _, _)
GameBuild(grid, rows_for_col, col_numbers, c) ==
    IF c = COLS THEN grid
    ELSE GameBuild(GamePlaceColumn(grid, c, Sorted(rows_for_col[c]), col_numbers[c], 1),
                   rows_for_col, col_numbers, c + 1)

GameFinishTicket(rnd, counts) ==
    LET n == GameSampleColumns(rnd, counts, 0, <<>>)
        order == ColsByCount(counts, 3) \o ColsByCount(counts, 2) \o ColsByCount(counts, 1)
        a == GameAssign(counts, order, 1, [r \in Rows |-> 0], [c \in Cols |-> <<>>])
    IN IF \E r \in Rows : a.row_counts[r] # 5
       THEN [status |-> "AssertionError", grid |-> NoGrid, rnd |-> n.rnd]
       ELSE [status |-> "return",
             grid |-> GameBuild(EmptyGrid, a.rows_for_col, n.val, 0),
             rnd |-> n.rnd]

\* ticket_numbers_set(grid)
ticket_numbers_set(grid) ==
    {grid[r][c] : r \in Rows, c \in Cols} \ {None}

\* ------------------------------------------------------------------------
\* generate_unique_tickets: the loop bodies
\* ------------------------------------------------------------------------
\* main.py: one pass of `while attempts < max_attempts_per_ticket`
MainWhileBody(r, ts, sn, att) ==
    LET t == MainGenerateTicket(r)
        key == ticket_numbers_set(t.grid)
    IN IF t.status # "return"
       THEN [raised |-> TRUE, broke |-> FALSE, rnd |-> t.rnd, ticket |-> NoGrid,
             tickets |-> ts, seen |-> sn, attempts |-> att,
             passes |-> t.passes]
       ELSE IF Cardinality(key) # 15
       THEN [raised |-> FALSE, broke |-> FALSE, rnd |-> t.rnd, ticket |-> t.grid,
             tickets |-> ts, seen |-> sn, attempts |-> att + 1,
             passes |-> t.passes]
       ELSE IF key \notin sn
       THEN [raised |-> FALSE, broke |-> TRUE, rnd |-> t.rnd, ticket |-> t.grid,
             tickets |-> Append(ts, t.grid), seen |-> sn \cup {key}, attempts |-> att,
             passes |-> t.passes]
       ELSE [raised |-> FALSE, broke |-> FALSE, rnd |-> t.rnd, ticket |-> t.grid,
             tickets |-> ts, seen |-> sn, attempts |-> att + 1,
             passes |-> t.passes]

\* a loop that tests its condition only after the first pass
GameWhileCondAfterFirstPass(ts, n, att) ==
    att = 0 \/ (Len(ts) < n /\ att < n * GameAttemptsPerTicket)

\* game.py: the condition of `while len(tickets) < count and attempts < count * 50`
GameWhileCond(ts, n, att) == Len(ts) < n /\ att < n * GameAttemptsPerTicket

\* a body that appends the ticket without looking it up in seen
GameWhileBodyNoLookup(t, ts, sn, att) ==
    [tickets |-> Append(ts, t), seen |-> sn \cup {ticket_numbers_set(t)},
     attempts |-> att + 1]

\* game.py: the rest of the while body once generate_ticket_9x3 has returned t
GameWhileBody(t, ts, sn, att) ==
    LET s == ticket_numbers_set(t)
    IN IF s \notin sn
       THEN [tickets |-> Append(ts, t), seen |-> sn \cup {s}, attempts |-> att + 1]
       ELSE [tickets |-> ts, seen |-> sn, attempts |-> att + 1]

\* ------------------------------------------------------------------------
\* main.py: check_line_complete, check_bingo_complete; game.py:
\* check_bingo_complete
\* ------------------------------------------------------------------------
\* the inner loop of check_line_complete over the cells of one row, from cell c:
\* None is skipped, the first cell not in drawn ends the loop with all_drawn False
RECURSIVE RowAllDrawn(_, _, _)
RowAllDrawn(row, drawn, c) ==
    IF c = COLS THEN TRUE
    ELSE IF row[c] = None THEN RowAllDrawn(row, drawn, c + 1)
    ELSE IF row[c] \notin drawn THEN FALSE
    ELSE RowAllDrawn(row, drawn, c + 1)

\* a scan that keeps going and reports the last complete row
RECURSIVE LastCompleteRowFrom(_, _, _, _)
LastCompleteRowFrom(grid, drawn, r, found) ==
    IF r = ROWS THEN found
    ELSE LastCompleteRowFrom(grid, drawn, r + 1,
                             IF RowAllDrawn(grid[r], drawn, 0) THEN r ELSE found)

LastCompleteRow(grid, drawn) == LastCompleteRowFrom(grid, drawn, 0, None)

\* the outer loop of check_line_complete from row r
RECURSIVE LineScanFrom(_, _, _)
LineScanFrom(grid, drawn, r) ==
    IF r = ROWS THEN None
    ELSE IF RowAllDrawn(grid[r], drawn, 0) THEN r
    ELSE LineScanFrom(grid, drawn, r + 1)

\* main.py: check_line_complete(grid, drawn)
check_line_complete(grid, drawn) == LineScanFrom(grid, drawn, 0)

\* main.py: validate_line_claim(grid, drawn)
validate_line_claim(grid, drawn) == check_line_complete(grid, drawn) # None

\* main.py: check_bingo_complete(grid, drawn), cell by cell from (r, c)
RECURSIVE BingoScanFrom(_, _, _, _)
BingoScanFrom(grid, drawn, r, c) ==
    IF r = ROWS THEN TRUE
    ELSE IF c = COLS THEN BingoScanFrom(grid, drawn, r + 1, 0)
    ELSE IF grid[r][c] = None THEN BingoScanFrom(grid, drawn, r, c + 1)
    ELSE IF grid[r][c] \notin drawn THEN FALSE
    ELSE BingoScanFrom(grid, drawn, r, c + 1)

main_check_bingo_complete(grid, drawn) == BingoScanFrom(grid, drawn, 0, 0)

\* main.py: validate_bingo_claim(grid, drawn)
validate_bingo_claim(grid, drawn) == main_check_bingo_complete(grid, drawn)

\* a subset test the wrong way round
game_check_bingo_reversed(t, drawn) ==
    drawn \subseteq ticket_numbers_set(t)

\* game.py: check_bingo_complete(ticket, drawn)
game_check_bingo_complete(t, drawn) ==
    ticket_numbers_set(t) \subseteq drawn

\* ------------------------------------------------------------------------
\* NumberDrawer
\* ------------------------------------------------------------------------
\* one pass of the loop of rnd.shuffle(x): swap x[i] and x[randbelow(i + 1)]
ShuffleSwap(rnd, x, i) ==
    LET r == Randbelow(rnd, i + 1)
    IN [val |-> [x EXCEPT ![i + 1] = x[r.val + 1], ![r.val + 1] = x[i + 1]],
        rnd |-> r.rnd]

\* the passes i = hi, hi - 1, ..., lo of the loop of rnd.shuffle(x), in that
\* order: the upper half of the passes runs first, the lower half continues
\* from the list and the source it leaves
RECURSIVE ShuffleLoop(_, _, _, _)
ShuffleLoop(rnd, x, hi, lo) ==
    IF hi < lo THEN [val |-> x, rnd |-> rnd]
    ELSE IF hi = lo THEN ShuffleSwap(rnd, x, hi)
    ELSE LET mid == (hi + lo) \div 2
         IN CHOOSE out \in {ShuffleLoop(s.rnd, s.val, mid, lo) :
                               s \in {ShuffleLoop(rnd, x, hi, mid + 1)}} : TRUE

\* rnd.shuffle(x): for i in reversed(range(1, len(x))): swap x[i], x[randbelow(i + 1)]
Shuffle(rnd, x) == ShuffleLoop(rnd, x, Len(x) - 1, 1)

\* main.py NumberDrawer.reset: the shuffled pool (val) and the source after
\* the shuffle (rnd)
MainFresh(r0) == Shuffle(r0, Range(1, 91))

\* main.py NumberDrawer.reset: the pool a source leaves
MainFreshPool(r0) == MainFresh(r0).val

\* game.py NumberDrawer.__init__: the pool
GameFreshPool == Range(1, 91)

\* a draw that puts the number drawn in front of the earlier ones
DrawNextPrepends(p, d) ==
    IF p = <<>>
    THEN [raised |-> TRUE, ret |-> None, pool |-> p, drawn |-> d]
    ELSE [raised |-> FALSE, ret |-> Head(p), pool |-> Tail(p), drawn |-> <<Head(p)>> \o d]

\* a draw that takes the number at the back of the pool
DrawNextFromBack(p, d) ==
    IF p = <<>>
    THEN [raised |-> TRUE, ret |-> None, pool |-> p, drawn |-> d]
    ELSE [raised |-> FALSE, ret |-> p[Len(p)], pool |-> SubSeq(p, 1, Len(p) - 1),
          drawn |-> Append(d, p[Len(p)])]

\* a draw that starts the drawn numbers over again once the pool is empty
DrawNextWrapsAround(p, d) ==
    IF p = <<>>
    THEN [raised |-> FALSE, ret |-> Head(d), pool |-> Tail(d), drawn |-> <<Head(d)>>]
    ELSE [raised |-> FALSE, ret |-> Head(p), pool |-> Tail(p), drawn |-> Append(d, Head(p))]

\* a draw that reads the front of the pool and leaves it there
DrawNextKeepsFront(p, d) ==
    IF p = <<>>
    THEN [raised |-> TRUE, ret |-> None, pool |-> p, drawn |-> d]
    ELSE [raised |-> FALSE, ret |-> Head(p), pool |-> p, drawn |-> Append(d, Head(p))]

\* NumberDrawer.draw_next (main.py and game.py): raise StopIteration on an
\* empty pool, else n = self._pool.pop(0); self._drawn.append(n); return n
DrawNextBody(p, d) ==
    IF p = <<>>
    THEN [raised |-> TRUE, ret |-> None, pool |-> p, drawn |-> d]
    ELSE [raised |-> FALSE, ret |-> Head(p), pool |-> Tail(p), drawn |-> Append(d, Head(p))]

\* ------------------------------------------------------------------------
\* economy.py: BalanceManager and the wallet file
\* ------------------------------------------------------------------------
DEFAULT_BINGO_MULTIPLIER == 4

\* What the wallet file holds.  kind "absent": no file; "text": text that is
\* not JSON; "json": a JSON document, data its value.  A JSON value is a record
\* with a tag t: "int" (v the number), "float" (v the number cut off towards
\* zero), "inf" (a float beyond the double range, as 1e999), "nan", "str" (v the
\* integer the text spells, None if it spells none), "null", "bool" (v 0 or 1),
\* "list", and "object" (has: the key "balance" is there; balance: its value).
Absent == [kind |-> "absent"]
NotJson == [kind |-> "text"]
Json(d) == [kind |-> "json", data |-> d]
JInt(n) == [t |-> "int", v |-> n]
JFloat(n) == [t |-> "float", v |-> n]
JStr(n) == [t |-> "str", v |-> n]
JTag(t) == [t |-> t]
JObject(b) == [t |-> "object", has |-> TRUE, balance |-> b]
JEmptyObject == [t |-> "object", has |-> FALSE, balance |-> JTag("null")]

\* int(x) for a JSON value x: exc is the exception raised, "none" if none
IntOf(x) ==
    IF x.t \in {"int", "float", "bool"} THEN [exc |-> "none", val |-> x.v]
    ELSE IF x.t = "str"
    THEN IF x.v = None THEN [exc |-> "ValueError", val |-> None]
         ELSE [exc |-> "none", val |-> x.v]
    ELSE IF x.t = "inf" THEN [exc |-> "OverflowError", val |-> None]
    ELSE IF x.t = "nan" THEN [exc |-> "ValueError", val |-> None]
    ELSE [exc |-> "TypeError", val |-> None]

\* max(0, n)
Max0(n) == IF n < 0 THEN 0 ELSE n

\* a _read_from_disk that hands on the balance it read as it is
ReadFromDiskUnclamped(st, start) ==
    IF st.kind \in {"absent", "text"} THEN [exc |-> "none", val |-> start]
    ELSE IF st.data.t # "object" THEN [exc |-> "AttributeError", val |-> None]
    ELSE LET b == IF st.data.has THEN IntOf(st.data.balance)
                  ELSE [exc |-> "none", val |-> start]
         IN IF b.exc = "none" THEN [exc |-> "none", val |-> b.val]
            ELSE IF b.exc \in {"ValueError", "TypeError"}
            THEN [exc |-> "none", val |-> start]
            ELSE [exc |-> b.exc, val |-> None]

\* BalanceManager._read_from_disk: FileNotFoundError, JSONDecodeError,
\* ValueError and TypeError give the starting balance; data.get on a JSON value
\* that is no object raises AttributeError and int() of an infinite float
\* raises OverflowError, which no except clause catches
ReadFromDisk(st, start) ==
    IF st.kind \in {"absent", "text"} THEN [exc |-> "none", val |-> Max0(start)]
    ELSE IF st.data.t # "object" THEN [exc |-> "AttributeError", val |-> None]
    ELSE LET b == IF st.data.has THEN IntOf(st.data.balance)
                  ELSE [exc |-> "none", val |-> start]
         IN IF b.exc = "none" THEN [exc |-> "none", val |-> Max0(b.val)]
            ELSE IF b.exc \in {"ValueError", "TypeError"}
            THEN [exc |-> "none", val |-> Max0(start)]
            ELSE [exc |-> b.exc, val |-> None]

\* BalanceManager._write_to_disk: the file then holds {"balance": bal}
WriteToDisk(bal) == Json(JObject(JInt(bal)))

\* A manager with its file: m.storage the file, m._balance (None: not loaded),
\* m._starting_balance, m.ticket_cost, m.line_prize, m.bingo_prize.  A method
\* yields [exc, ret, m, wrote]: the exception raised ("none" if none), the value
\* returned (None if it raised), the manager afterwards, and whether the file
\* was written.
Raise(e, m) == [exc |-> e, ret |-> None, m |-> m, wrote |-> FALSE]

\* BalanceManager._ensure_loaded
EnsureLoaded(m) ==
    IF m._balance # None THEN [exc |-> "none", m |-> m]
    ELSE LET r == ReadFromDisk(m.storage, m._starting_balance)
         IN IF r.exc # "none" THEN [exc |-> r.exc, m |-> m]
            ELSE [exc |-> "none", m |-> [m EXCEPT !._balance = r.val]]

\* BalanceManager.get_balance
get_balance(m) ==
    LET l == EnsureLoaded(m)
    IN IF l.exc # "none" THEN Raise(l.exc, m)
       ELSE [exc |-> "none", ret |-> l.m._balance, m |-> l.m, wrote |-> FALSE]

\* the manager with balance b in memory and on file
Stored(m, b) == [m EXCEPT !._balance = b, !.storage = WriteToDisk(b)]

\* BalanceManager.set_balance
set_balance(m, value) ==
    [exc |-> "none", ret |-> Max0(value), m |-> Stored(m, Max0(value)), wrote |-> TRUE]

\* an adjust_balance that keeps the new balance in memory only
adjust_balance_unsaved(m, delta) ==
    LET l == EnsureLoaded(m)
    IN IF l.exc # "none" THEN Raise(l.exc, m)
       ELSE LET b == Max0(l.m._balance + delta)
            IN [exc |-> "none", ret |-> b, m |-> [l.m EXCEPT !._balance = b],
                wrote |-> FALSE]

\* BalanceManager.adjust_balance
adjust_balance(m, delta) ==
    LET l == EnsureLoaded(m)
    IN IF l.exc # "none" THEN Raise(l.exc, m)
       ELSE LET b == Max0(l.m._balance + delta)
            IN [exc |-> "none", ret |-> b, m |-> Stored(l.m, b), wrote |-> TRUE]

\* BalanceManager.reset
reset(m) ==
    [exc |-> "none", ret |-> m._starting_balance,
     m |-> Stored(m, m._starting_balance), wrote |-> TRUE]

\* BalanceManager.can_afford_ticket; ret is 1 for True, 0 for False
can_afford_ticket(m, quantity) ==
    LET cost == m.ticket_cost * (IF quantity < 1 THEN 1 ELSE quantity)
        g == get_balance(m)
    IN IF g.exc # "none" THEN g
       ELSE [g EXCEPT !.ret = IF g.ret >= cost THEN 1 ELSE 0]

\* BalanceManager.spend_for_tickets
spend_for_tickets(m, quantity) ==
    LET q == IF quantity < 1 THEN 1 ELSE quantity
        cost == m.ticket_cost * q
        a == can_afford_ticket(m, q)
    IN IF a.exc # "none" THEN a
       ELSE IF a.ret = 0 THEN Raise("ValueError", a.m)
       ELSE adjust_balance(a.m, 0 - cost)

\* BalanceManager.award_line
award_line(m) == adjust_balance(m, m.line_prize)

\* BalanceManager.award_bingo
award_bingo(m) == adjust_balance(m, m.bingo_prize)

\* BalanceManager.deposit
deposit(m, amount) ==
    IF amount <= 0 THEN Raise("ValueError", m)
    ELSE adjust_balance(m, amount)

\* a withdraw that does not look at the balance
withdraw_unchecked(m, amount) ==
    IF amount <= 0 THEN Raise("ValueError", m)
    ELSE adjust_balance(m, 0 - amount)

\* BalanceManager.withdraw
withdraw(m, amount) ==
    IF amount <= 0 THEN Raise("ValueError", m)
    ELSE LET g == get_balance(m)
         IN IF g.exc # "none" THEN g
            ELSE IF g.ret < amount THEN Raise("ValueError", g.m)
            ELSE adjust_balance(g.m, 0 - amount)

\* BalanceManager.__init__ on the file st
NewBalanceManager(st, starting_balance, ticket_cost, line_prize, bingo_prize) ==
    [storage |-> st,
     _balance |-> None,
     _starting_balance |-> Max0(starting_balance),
     ticket_cost |-> Max0(ticket_cost),
     line_prize |-> Max0(line_prize),
     bingo_prize |-> Max0(IF bingo_prize = None
                          THEN Max0(line_prize) * DEFAULT_BINGO_MULTIPLIER
                          ELSE bingo_prize)]

\* ------------------------------------------------------------------------
\* main.py: play_interactive_demo
\* ------------------------------------------------------------------------
TICKET_COST == 1
LINE_PRIZE == 5
DEFAULT_WALLET == 10
BINGO_PRIZE == LINE_PRIZE * 4
DefaultMaxAttemptsPerTicket == 5000

\* main.py: generate_unique_tickets as one call on the source r: the passes of
\* its for and while loops from (idx, att) on
RECURSIVE MainUniqueLoop(_, _, _, _, _, _, _)
MainUniqueLoop(r, ts, sn, idx, att, cnt, m) ==
    IF idx >= cnt THEN [status |-> "return", tickets |-> ts, rnd |-> r]
    ELSE IF att >= m THEN [status |-> "RuntimeError", tickets |-> <<>>, rnd |-> r]
    ELSE CHOOSE out \in
            {IF b.raised THEN [status |-> "RuntimeError", tickets |-> <<>>, rnd |-> b.rnd]
             ELSE IF b.broke
             THEN MainUniqueLoop(b.rnd, b.tickets, b.seen, idx + 1, 0, cnt, m)
             ELSE MainUniqueLoop(b.rnd, b.tickets, b.seen, idx, b.attempts, cnt, m) :
                b \in {MainWhileBody(r, ts, sn, att)}} : TRUE

MainGenerateUniqueTickets(r, cnt, m) ==
    IF cnt <= 0 THEN [status |-> "return", tickets |-> <<>>, rnd |-> NoRnd]
    ELSE MainUniqueLoop(r, <<>>, {}, 0, 0, cnt, m)

\* what input() returns: an empty line, the digits of an integer, other text
Empty == [kind |-> "empty"]
Text == [kind |-> "text"]
Number(v) == [kind |-> "int", v |-> v]

\* wallet = int(inp) if inp.strip() else DEFAULT_WALLET, and DEFAULT_WALLET
\* when int() raises
StartingWallet(inp) == IF inp.kind = "int" THEN inp.v ELSE DEFAULT_WALLET

\* if dep > 0: wallet += dep
Deposited(w, dep) == IF dep > 0 THEN w + dep ELSE w

\* a mark that is applied without looking at the ticket
MarkBodyUnchecked(pt, marked, num, mark_resp) ==
    IF mark_resp = "y" THEN marked \cup {num} ELSE marked

\* if mark_resp == "y": the number is marked if it is on the player's ticket
MarkBody(pt, marked, num, mark_resp) ==
    IF mark_resp = "y" /\ num \in ticket_numbers_set(pt)
    THEN marked \cup {num}
    ELSE marked

\* the bot claims the line when its ticket has one and nobody has claimed yet
BotLineClaim(bt, drawn, lcb) ==
    IF check_line_complete(bt, drawn) # None /\ lcb = "none" THEN "bot" ELSE lcb

\* a line claim that is validated even when the line has been claimed
LineClaimAnyTime(pt, marked, lcb, w) ==
    IF validate_line_claim(pt, marked)
    THEN [line_claimed_by |-> "player", wallet |-> w + LINE_PRIZE, paid |-> "line"]
    ELSE [line_claimed_by |-> lcb, wallet |-> w, paid |-> "none"]

\* if resp == "l"
LineClaim(pt, marked, lcb, w) ==
    IF lcb # "none"
    THEN [line_claimed_by |-> lcb, wallet |-> w, paid |-> "none"]
    ELSE IF validate_line_claim(pt, marked)
    THEN [line_claimed_by |-> "player", wallet |-> w + LINE_PRIZE, paid |-> "line"]
    ELSE [line_claimed_by |-> lcb, wallet |-> w, paid |-> "none"]

\* an automatic check that looks at the player's ticket first
AutoBingoPlayerFirst(pt, bt, marked, drawn, bcb, w) ==
    LET player_bingo == main_check_bingo_complete(pt, marked)
        bot_bingo == main_check_bingo_complete(bt, drawn)
    IN IF ~(player_bingo \/ bot_bingo)
       THEN [found |-> FALSE, bingo_claimed_by |-> bcb, wallet |-> w, paid |-> "none"]
       ELSE IF player_bingo /\ bcb = "none"
       THEN [found |-> TRUE, bingo_claimed_by |-> "player", wallet |-> w + BINGO_PRIZE,
             paid |-> "auto"]
       ELSE IF bot_bingo /\ bcb = "none"
       THEN [found |-> TRUE, bingo_claimed_by |-> "bot", wallet |-> w, paid |-> "none"]
       ELSE [found |-> TRUE, bingo_claimed_by |-> bcb, wallet |-> w, paid |-> "none"]

\* the automatic bingo check
AutoBingo(pt, bt, marked, drawn, bcb, w) ==
    LET player_bingo == main_check_bingo_complete(pt, marked)
        bot_bingo == main_check_bingo_complete(bt, drawn)
    IN IF ~(player_bingo \/ bot_bingo)
       THEN [found |-> FALSE, bingo_claimed_by |-> bcb, wallet |-> w, paid |-> "none"]
       ELSE IF bot_bingo /\ bcb = "none"
       THEN [found |-> TRUE, bingo_claimed_by |-> "bot", wallet |-> w, paid |-> "none"]
       ELSE IF player_bingo /\ bcb = "none"
       THEN [found |-> TRUE, bingo_claimed_by |-> "player", wallet |-> w + BINGO_PRIZE,
             paid |-> "auto"]
       ELSE [found |-> TRUE, bingo_claimed_by |-> bcb, wallet |-> w, paid |-> "none"]

\* if resp == "b"
ManualBingo(pt, marked, bcb, w) ==
    IF bcb # "none"
    THEN [ended |-> FALSE, bingo_claimed_by |-> bcb, wallet |-> w, paid |-> "none"]
    ELSE IF validate_bingo_claim(pt, marked)
    THEN [ended |-> TRUE, bingo_claimed_by |-> "player", wallet |-> w + BINGO_PRIZE,
          paid |-> "manual"]
    ELSE [ended |-> FALSE, bingo_claimed_by |-> bcb, wallet |-> w, paid |-> "none"]

\* the claim prompt's answer handled with the manual bingo claim ahead of the
\* automatic check
ClaimBodyManualFirst(pt, bt, marked, drawn, lcb, bcb, w, resp) ==
    IF resp = "l"
    THEN LET l == LineClaim(pt, marked, lcb, w)
         IN [next |-> "draw", line_claimed_by |-> l.line_claimed_by,
             bingo_claimed_by |-> bcb, wallet |-> l.wallet, paid |-> l.paid]
    ELSE LET m == ManualBingo(pt, marked, bcb, w)
             a == AutoBingo(pt, bt, marked, drawn, bcb, w)
         IN IF resp = "b" /\ m.ended
            THEN [next |-> "choice", line_claimed_by |-> lcb,
                  bingo_claimed_by |-> m.bingo_claimed_by, wallet |-> m.wallet,
                  paid |-> m.paid]
            ELSE IF a.found
            THEN [next |-> "choice", line_claimed_by |-> lcb,
                  bingo_claimed_by |-> a.bingo_claimed_by, wallet |-> a.wallet,
                  paid |-> a.paid]
            ELSE [next |-> "draw", line_claimed_by |-> lcb, bingo_claimed_by |-> bcb,
                  wallet |-> w, paid |-> "none"]

\* from the claim prompt's answer to the next prompt or the next draw: where
\* the loop goes on (next) and what the answer changed
ClaimBody(pt, bt, marked, drawn, lcb, bcb, w, resp) ==
    IF resp = "l"
    THEN LET l == LineClaim(pt, marked, lcb, w)
         IN [next |-> "draw", line_claimed_by |-> l.line_claimed_by,
             bingo_claimed_by |-> bcb, wallet |-> l.wallet, paid |-> l.paid]
    ELSE LET a == AutoBingo(pt, bt, marked, drawn, bcb, w)
         IN IF a.found
            THEN [next |-> "choice", line_claimed_by |-> lcb,
                  bingo_claimed_by |-> a.bingo_claimed_by, wallet |-> a.wallet,
                  paid |-> a.paid]
            ELSE IF resp = "b"
            THEN LET m == ManualBingo(pt, marked, bcb, w)
                 IN [next |-> IF m.ended THEN "choice" ELSE "draw",
                     line_claimed_by |-> lcb, bingo_claimed_by |-> m.bingo_claimed_by,
                     wallet |-> m.wallet, paid |-> m.paid]
            ELSE [next |-> "draw", line_claimed_by |-> lcb, bingo_claimed_by |-> bcb,
                  wallet |-> w, paid |-> "none"]

\* ------------------------------------------------------------------------
\* State
\* ------------------------------------------------------------------------
VARIABLES
    \* ---- the ticket factory: one call of generate_ticket_9x3 or
    \* ---- generate_unique_tickets at a time
    variant,    \* "main" | "game": the module whose function is running
    op,         \* "generate_ticket_9x3" | "generate_unique_tickets"
    pc,         \* "idle" | "main_while" | "game_while" | "distribute" | "done"
    seed,       \* argument seed
    count,      \* argument count
    max_attempts_per_ticket,
    rnd,        \* the random source of the call
    counts,     \* game.py generate_ticket_9x3: counts
    remaining,  \* game.py generate_ticket_9x3: remaining
    ticket,     \* the grid generate_ticket_9x3 returned last in this call
    tickets,
    seen,
    attempts,
    i,          \* main.py generate_unique_tickets: the for index
    passes,     \* main.py generate_ticket_9x3: passes of its for loop in the last call
    outcome,    \* "none" | "return" | "RuntimeError" | "AssertionError"
    prev,       \* an earlier finished call of generate_unique_tickets
    \* ---- the win checks: their arguments and what they returned
    grid,
    marked,
    line,       \* check_line_complete(grid, marked)
    bingo_main, \* main.py check_bingo_complete(grid, marked)
    bingo_game, \* game.py check_bingo_complete(grid, marked)
    \* ---- one NumberDrawer
    drawer,     \* "none" | "main" | "game": the class of the drawer
    arg,        \* the seed handed to the constructor or to reset, whichever ran last
    _seed,      \* main.py: self._seed
    _rnd,       \* main.py: self._rnd; game.py: self.rnd
    _pool,
    _drawn,
    ret,        \* what the last draw_next returned (None: nothing)
    raised,     \* the last draw_next raised StopIteration
    calls,      \* draw_next calls since the drawer was built or reset
    \* ---- one BalanceManager and the wallet file
    storage,    \* what the file at _storage_path holds
    _balance,
    _starting_balance,
    ticket_cost,
    line_prize,
    bingo_prize,
    wop,        \* the method of the manager called last ("none": no manager yet)
    warg,       \* its argument (None: it takes none)
    wexc,       \* the exception it raised ("none": it returned)
    wret,       \* the value it returned (None: it raised)
    wrote,      \* it wrote the file
    session,    \* the first manager of a session and its successful calls
    \* ---- play_interactive_demo
    at,         \* where the demo is: "none" (not called) | "top" (head of the session
                \* loop) | "funds" | "deposit" | "buy" | "draw" (head of the round loop) |
                \* "mark" | "claim" | "choice" (the prompts it waits at) | "raised" |
                \* "finished"
    wallet,
    session_active,
    player_ticket,
    bot_ticket,
    drawn_set,
    player_marked_set,
    line_claimed_by,    \* "none" | "bot" | "player"
    bingo_claimed_by,   \* "none" | "bot" | "player"
    answer,     \* the line input() returned last at the mark, claim or choice prompt
    paid,       \* what the last answer at the claim prompt paid the player:
                \* "none" | "line" | "auto" | "manual"
    rounds      \* rounds begun in this session

factoryVars == <<variant, op, pc, seed, count, max_attempts_per_ticket, rnd, counts,
                 remaining, ticket, tickets, seen, attempts, i, passes, outcome,
                 prev>>
winVars == <<grid, marked, line, bingo_main, bingo_game>>
drawerVars == <<drawer, arg, _seed, _rnd, _pool, _drawn, ret, raised, calls>>

configVars == <<_starting_balance, ticket_cost, line_prize, bingo_prize>>
walletVars == <<storage, _balance, configVars, wop, warg, wexc, wret, wrote, session>>

demoVars == <<at, wallet, session_active, player_ticket, bot_ticket, drawn_set,
              player_marked_set, line_claimed_by, bingo_claimed_by, answer, paid, rounds>>

vars == <<factoryVars, winVars, drawerVars, walletVars, demoVars>>

NoCall == [variant |-> "none", seed |-> None, count |-> 0,
           outcome |-> "none", tickets |-> <<>>]

SeedArgs == Seeds \cup {None}
CountArgs == 0 .. MaxCount
AttemptArgs == 0 .. MaxAttemptsArg

FactoryIdle ==
    /\ variant = "main"
    /\ op = "generate_ticket_9x3"
    /\ pc = "idle"
    /\ seed = None
    /\ count = 0
    /\ max_attempts_per_ticket = 0
    /\ rnd = NoRnd
    /\ counts = [c \in Cols |-> 1]
    /\ remaining = 0
    /\ ticket = NoGrid
    /\ tickets = <<>>
    /\ seen = {}
    /\ attempts = 0
    /\ i = 0
    /\ passes = 0
    /\ outcome = "none"
    /\ prev = NoCall

NoWinCheck ==
    /\ grid = NoGrid
    /\ marked = {}
    /\ line = None
    /\ bingo_main = FALSE
    /\ bingo_game = FALSE

NoDrawer ==
    /\ drawer = "none"
    /\ arg = None
    /\ _seed = None
    /\ _rnd = NoRnd
    /\ _pool = <<>>
    /\ _drawn = <<>>
    /\ ret = None
    /\ raised = FALSE
    /\ calls = 0

NoSession == [phase |-> "none", start |-> 0, cost |-> 0, prize |-> 0, n |-> 0, m |-> 0]

NoManager ==
    /\ _balance = None
    /\ _starting_balance = 0
    /\ ticket_cost = 0
    /\ line_prize = 0
    /\ bingo_prize = 0
    /\ wop = "none"
    /\ warg = None
    /\ wexc = "none"
    /\ wret = None
    /\ wrote = FALSE
    /\ session = NoSession

NoWallet == storage = Absent /\ NoManager

NoDemo ==
    /\ at = "none"
    /\ wallet = 0
    /\ session_active = FALSE
    /\ player_ticket = NoGrid
    /\ bot_ticket = NoGrid
    /\ drawn_set = {}
    /\ player_marked_set = {}
    /\ line_claimed_by = "none"
    /\ bingo_claimed_by = "none"
    /\ answer = ""
    /\ paid = "none"
    /\ rounds = 0

Init == FactoryIdle /\ NoWinCheck /\ NoDrawer /\ NoWallet /\ NoDemo

\* the locals of a call that has just been entered
Enter(v, o, sd, n, m) ==
    /\ variant' = v
    /\ op' = o
    /\ seed' = sd
    /\ count' = n
    /\ max_attempts_per_ticket' = m
    /\ counts' = [c \in Cols |-> 1]
    /\ remaining' = 0
    /\ tickets' = <<>>
    /\ seen' = {}
    /\ attempts' = 0
    /\ i' = 0

\* main.py: generate_ticket_9x3(seed=sd)
MainTicket(sd) ==
    /\ pc \in {"idle", "done"}
    /\ prev = NoCall
    /\ Enter("main", "generate_ticket_9x3", sd, 0, 0)
    /\ \E r0 \in Random(sd) :
         \E t \in {MainGenerateTicket(r0)} :
            /\ rnd' = t.rnd
            /\ ticket' = t.grid
            /\ passes' = t.passes
            /\ outcome' = t.status
    /\ pc' = "done"
    /\ UNCHANGED <<prev, winVars, drawerVars, walletVars, demoVars>>

\* main.py: generate_unique_tickets(n, sd, m) up to its first loop pass
MainUniqueEnter(n, sd, m) ==
    /\ Enter("main", "generate_unique_tickets", sd, n, m)
    /\ ticket' = NoGrid
    /\ passes' = 0
    /\ IF n <= 0
       THEN /\ rnd' = NoRnd
            /\ outcome' = "return"
            /\ pc' = "done"
       ELSE /\ rnd' \in Random(sd)
            /\ outcome' = "none"
            /\ pc' = "main_while"

MainUnique(n, sd, m) ==
    /\ pc \in {"idle", "done"}
    /\ prev = NoCall
    /\ MainUniqueEnter(n, sd, m)
    /\ UNCHANGED <<prev, winVars, drawerVars, walletVars, demoVars>>

\* main.py: one pass of the while loop; a break moves on to the next i or returns
MainWhile ==
    /\ pc = "main_while"
    /\ attempts < max_attempts_per_ticket
    /\ \E b \in {MainWhileBody(rnd, tickets, seen, attempts)} :
          /\ rnd' = b.rnd
          /\ ticket' = b.ticket
          /\ tickets' = b.tickets
          /\ seen' = b.seen
          /\ passes' = b.passes
          /\ IF b.raised
             THEN /\ outcome' = "RuntimeError"
                  /\ pc' = "done"
                  /\ UNCHANGED <<attempts, i>>
             ELSE IF b.broke
             THEN /\ i' = i + 1
                  /\ IF i + 1 < count
                     THEN /\ attempts' = 0
                          /\ UNCHANGED <<outcome, pc>>
                     ELSE /\ outcome' = "return"
                          /\ pc' = "done"
                          /\ UNCHANGED attempts
             ELSE /\ attempts' = b.attempts
                  /\ UNCHANGED <<i, outcome, pc>>
    /\ UNCHANGED <<variant, op, seed, count, max_attempts_per_ticket, counts,
                   remaining, prev>>
    /\ UNCHANGED <<winVars, drawerVars, walletVars, demoVars>>

\* main.py: the while loop ends without a break
MainWhileExhausted ==
    /\ pc = "main_while"
    /\ attempts >= max_attempts_per_ticket
    /\ outcome' = "RuntimeError"
    /\ pc' = "done"
    /\ UNCHANGED <<variant, op, seed, count, max_attempts_per_ticket, rnd, counts,
                   remaining, ticket, tickets, seen, attempts, i, passes, prev>>
    /\ UNCHANGED <<winVars, drawerVars, walletVars, demoVars>>

\* game.py: generate_ticket_9x3(seed=sd) up to its distribution loop
GameTicket(sd) ==
    /\ pc \in {"idle", "done"}
    /\ prev = NoCall
    /\ variant' = "game"
    /\ op' = "generate_ticket_9x3"
    /\ seed' = sd
    /\ count' = 0
    /\ max_attempts_per_ticket' = 0
    /\ rnd' \in Random(sd)
    /\ counts' = [c \in Cols |-> 1]
    /\ remaining' = 15 - 9
    /\ ticket' = NoGrid
    /\ tickets' = <<>>
    /\ seen' = {}
    /\ attempts' = 0
    /\ i' = 0
    /\ passes' = 0
    /\ outcome' = "none"
    /\ pc' = "distribute"
    /\ UNCHANGED <<prev, winVars, drawerVars, walletVars, demoVars>>

\* game.py: generate_unique_tickets(n, sd) up to the loop head
GameUniqueEnter(n, sd) ==
    /\ Enter("game", "generate_unique_tickets", sd, n, 0)
    /\ passes' = 0
    /\ rnd' \in Random(sd)
    /\ ticket' = NoGrid
    /\ outcome' = "none"
    /\ pc' = "game_while"

GameUnique(n, sd) ==
    /\ pc \in {"idle", "done"}
    /\ prev = NoCall
    /\ GameUniqueEnter(n, sd)
    /\ UNCHANGED <<prev, winVars, drawerVars, walletVars, demoVars>>

\* game.py: the loop condition holds, generate_ticket_9x3(rnd=rnd) is entered
GameWhile ==
    /\ pc = "game_while"
    /\ GameWhileCond(tickets, count, attempts)
    /\ counts' = [c \in Cols |-> 1]
    /\ remaining' = 15 - 9
    /\ pc' = "distribute"
    /\ UNCHANGED <<variant, op, seed, count, max_attempts_per_ticket, rnd, ticket,
                   tickets, seen, attempts, i, passes, outcome, prev>>
    /\ UNCHANGED <<winVars, drawerVars, walletVars, demoVars>>

\* game.py: the loop has ended
GameWhileEnd ==
    /\ pc = "game_while"
    /\ ~GameWhileCond(tickets, count, attempts)
    /\ outcome' = IF Len(tickets) < count THEN "RuntimeError" ELSE "return"
    /\ pc' = "done"
    /\ UNCHANGED <<variant, op, seed, count, max_attempts_per_ticket, rnd, counts,
                   remaining, ticket, tickets, seen, attempts, i, passes, prev>>
    /\ UNCHANGED <<winVars, drawerVars, walletVars, demoVars>>

\* game.py generate_ticket_9x3: one pass of `while remaining > 0`
GameDistribute ==
    /\ pc = "distribute"
    /\ remaining > 0
    /\ \E r \in {Choice(rnd, Range(0, 9))} :
          /\ rnd' = r.rnd
          /\ IF counts[r.val] < 3
             THEN /\ counts' = [counts EXCEPT ![r.val] = @ + 1]
                  /\ remaining' = remaining - 1
             ELSE UNCHANGED <<counts, remaining>>
    /\ UNCHANGED <<variant, op, pc, seed, count, max_attempts_per_ticket, ticket,
                   tickets, seen, attempts, i, passes, outcome, prev>>
    /\ UNCHANGED <<winVars, drawerVars, walletVars, demoVars>>

\* game.py generate_ticket_9x3: the rest of the function, and the caller's use
\* of the grid
GameFinish ==
    /\ pc = "distribute"
    /\ remaining = 0
    /\ \E t \in {GameFinishTicket(rnd, counts)} :
          /\ rnd' = t.rnd
          /\ ticket' = t.grid
          /\ IF t.status # "return"
             THEN /\ outcome' = t.status
                  /\ pc' = "done"
                  /\ UNCHANGED <<tickets, seen, attempts>>
             ELSE IF op = "generate_ticket_9x3"
             THEN /\ outcome' = "return"
                  /\ pc' = "done"
                  /\ UNCHANGED <<tickets, seen, attempts>>
             ELSE \E b \in {GameWhileBody(t.grid, tickets, seen, attempts)} :
                     /\ tickets' = b.tickets
                     /\ seen' = b.seen
                     /\ attempts' = b.attempts
                     /\ pc' = "game_while"
                     /\ UNCHANGED outcome
    /\ UNCHANGED <<variant, op, seed, count, max_attempts_per_ticket, counts,
                   remaining, i, passes, prev>>
    /\ UNCHANGED <<winVars, drawerVars, walletVars, demoVars>>

\* generate_unique_tickets is called a second time with the seed and the count
\* of the call that has just finished, which is kept in prev
Replay(m) ==
    /\ pc = "done"
    /\ op = "generate_unique_tickets"
    /\ prev = NoCall
    /\ prev' = [variant |-> variant, seed |-> seed, count |-> count,
                outcome |-> outcome, tickets |-> tickets]
    /\ IF variant = "main"
       THEN MainUniqueEnter(count, seed, m)
       ELSE GameUniqueEnter(count, seed)
    /\ UNCHANGED <<winVars, drawerVars, walletVars, demoVars>>

\* main.py: a caller builds the source r and calls generate_ticket_9x3(rnd=r)
MainTicketFrom(r) ==
    /\ pc = "idle"
    /\ Enter("main", "generate_ticket_9x3", None, 0, 0)
    /\ \E t \in {MainGenerateTicket(r)} :
          /\ rnd' = t.rnd
          /\ ticket' = t.grid
          /\ outcome' = t.status
          /\ passes' = t.passes
    /\ pc' = "done"
    /\ UNCHANGED <<prev, winVars, drawerVars, walletVars, demoVars>>

\* main.py: the caller calls generate_ticket_9x3(rnd=rnd) again on the source
\* of the call before, as the loop of generate_unique_tickets does
MainTicketAgain ==
    /\ pc = "done"
    /\ variant = "main"
    /\ op = "generate_ticket_9x3"
    /\ \E t \in {MainGenerateTicket(rnd)} :
          /\ rnd' = t.rnd
          /\ ticket' = t.grid
          /\ outcome' = t.status
          /\ passes' = t.passes
    /\ UNCHANGED <<variant, op, pc, seed, count, max_attempts_per_ticket, counts,
                   remaining, tickets, seen, attempts, i, prev>>
    /\ UNCHANGED <<winVars, drawerVars, walletVars, demoVars>>

\* ------------------------------------------------------------------------
\* The win checks applied to a ticket and a growing set of marked numbers
\* ------------------------------------------------------------------------
WinSeeds == 0 .. MaxWinSeed

\* the tickets the checks are applied to
WinTickets == {MainGenerateTicket(Seeded(sd)).grid : sd \in WinSeeds}

\* the least number that is not on the ticket
Stray(g) == CHOOSE n \in 1 .. 90 :
                n \notin ticket_numbers_set(g) /\ (1 .. (n - 1)) \subseteq ticket_numbers_set(g)

Markable(g) == ticket_numbers_set(g) \cup {Stray(g)}

InitWin ==
    /\ FactoryIdle
    /\ NoDrawer
    /\ NoWallet
    /\ NoDemo
    /\ grid \in WinTickets
    /\ marked = {}
    /\ line = check_line_complete(grid, {})
    /\ bingo_main = main_check_bingo_complete(grid, {})
    /\ bingo_game = game_check_bingo_complete(grid, {})

\* one more number is marked (in ascending order, so that every subset of
\* Markable(grid) is built once) and the three checks are applied
Mark(n) ==
    /\ \A m \in marked : m < n
    /\ marked' = marked \cup {n}
    /\ line' = check_line_complete(grid, marked')
    /\ bingo_main' = main_check_bingo_complete(grid, marked')
    /\ bingo_game' = game_check_bingo_complete(grid, marked')
    /\ UNCHANGED <<grid, factoryVars, drawerVars, walletVars, demoVars>>

\* ------------------------------------------------------------------------
\* NumberDrawer
\* ------------------------------------------------------------------------
\* main.py: NumberDrawer(seed)
MainDrawerNew(sd) ==
    /\ drawer' = "main"
    /\ arg' = sd
    /\ _seed' = sd
    /\ \E r0 \in Random(sd) :
          \E f \in {MainFresh(r0)} :
             /\ _pool' = f.val
             /\ _rnd' = f.rnd
    /\ _drawn' = <<>>
    /\ ret' = None
    /\ raised' = FALSE
    /\ calls' = 0
    /\ UNCHANGED <<factoryVars, winVars, walletVars, demoVars>>

\* a reset that leaves the numbers drawn so far in drawn()
MainDrawerResetKeepsDrawn(sd) ==
    /\ drawer = "main"
    /\ arg' = sd
    /\ \E r0 \in Random(IF sd = None THEN _seed ELSE sd) :
          \E f \in {MainFresh(r0)} :
             /\ _pool' = f.val
             /\ _rnd' = f.rnd
    /\ ret' = None
    /\ raised' = FALSE
    /\ calls' = 0
    /\ UNCHANGED <<drawer, _seed, _drawn, factoryVars, winVars, walletVars, demoVars>>

\* main.py: NumberDrawer.reset(seed)
MainDrawerReset(sd) ==
    /\ drawer = "main"
    /\ arg' = sd
    /\ \E r0 \in Random(IF sd = None THEN _seed ELSE sd) :
          \E f \in {MainFresh(r0)} :
             /\ _pool' = f.val
             /\ _rnd' = f.rnd
    /\ _drawn' = <<>>
    /\ ret' = None
    /\ raised' = FALSE
    /\ calls' = 0
    /\ UNCHANGED <<drawer, _seed, factoryVars, winVars, walletVars, demoVars>>

\* game.py: NumberDrawer(rnd), where the caller hands in random.Random(sd), or
\* no source at all (sd = None) and the drawer builds random.Random()
GameDrawerNew(sd) ==
    /\ drawer' = "game"
    /\ arg' = sd
    /\ _seed' = None
    /\ _rnd' \in Random(sd)
    /\ _pool' = GameFreshPool
    /\ _drawn' = <<>>
    /\ ret' = None
    /\ raised' = FALSE
    /\ calls' = 0
    /\ UNCHANGED <<factoryVars, winVars, walletVars, demoVars>>

\* NumberDrawer.draw_next()
DrawNext ==
    /\ drawer # "none"
    /\ calls < MaxDrawCalls
    /\ \E d \in {DrawNextBody(_pool, _drawn)} :
          /\ _pool' = d.pool
          /\ _drawn' = d.drawn
          /\ ret' = d.ret
          /\ raised' = d.raised
    /\ calls' = calls + 1
    /\ UNCHANGED <<drawer, arg, _seed, _rnd, factoryVars, winVars, walletVars, demoVars>>

\* NumberDrawer.drawn(), remaining(), remaining_count() (main.py and game.py)
NumberDrawer_drawn == _drawn
NumberDrawer_remaining == _pool
NumberDrawer_remaining_count == Len(_pool)

\* ------------------------------------------------------------------------
\* A round on a drawer whose pool starts with the numbers of the ticket
\* (tests/test_sprint2_endless.py, test_drawer_and_ticket_quick_bingo)
\* ------------------------------------------------------------------------
\* _flatten_ticket_nums(ticket): the numbers of the ticket, row by row
_flatten_ticket_nums(t) ==
    SelectSeq([k \in 1 .. ROWS * COLS |-> t[(k - 1) \div COLS][(k - 1) % COLS]],
              LAMBDA n : n # None)

\* the list s started k places further on
Rotate(s, k) == [j \in 1 .. Len(s) |-> s[((j - 1 + k) % Len(s)) + 1]]

\* rest = [n for n in range(1, 91) if n not in ticket_nums]; ticket_nums + rest
PresetPool(ticket_nums) ==
    ticket_nums \o SelectSeq(Range(1, 91),
                             LAMBDA n : \A j \in DOMAIN ticket_nums : ticket_nums[j] # n)

\* game.py: generate_unique_tickets(1, seed=sd), with no drawer built yet
RoundTicket(sd) ==
    /\ drawer = "none"
    /\ GameUnique(1, sd)

\* the ticket is the one generate_unique_tickets returned; a game.py drawer is
\* built without a source and its pool is overwritten with the ticket's numbers,
\* started k places further on, followed by the other 75 numbers
Preset(k) ==
    /\ drawer = "none"
    /\ pc = "done" /\ variant = "game" /\ op = "generate_unique_tickets"
    /\ outcome = "return" /\ Len(tickets) = 1
    /\ drawer' = "game"
    /\ arg' = None
    /\ _seed' = None
    /\ _rnd' \in Random(None)
    /\ _pool' = PresetPool(Rotate(_flatten_ticket_nums(tickets[1]), k))
    /\ _drawn' = <<>>
    /\ ret' = None
    /\ raised' = FALSE
    /\ calls' = 0
    /\ grid' = tickets[1]
    /\ marked' = {}
    /\ bingo_game' = FALSE
    /\ UNCHANGED <<line, bingo_main, factoryVars, walletVars, demoVars>>

\* n = drawer.draw_next(); drawn_set.add(n); check_bingo_complete(ticket, drawn_set)
DrawAndCheck ==
    /\ drawer = "game"
    /\ grid # NoGrid
    /\ calls < MaxDrawCalls
    /\ \E d \in {DrawNextBody(_pool, _drawn)} :
          /\ _pool' = d.pool
          /\ _drawn' = d.drawn
          /\ ret' = d.ret
          /\ raised' = d.raised
          /\ IF d.raised
             THEN UNCHANGED <<marked, bingo_game>>
             ELSE /\ marked' = marked \cup {d.ret}
                  /\ bingo_game' = game_check_bingo_complete(grid, marked')
    /\ calls' = calls + 1
    /\ UNCHANGED <<drawer, arg, _seed, _rnd, grid, line, bingo_main, factoryVars, walletVars, demoVars>>

\* ------------------------------------------------------------------------
\* BalanceManager
\* ------------------------------------------------------------------------
\* what the wallet file may hold before the first manager opens it
Records ==
    {Absent, NotJson,
     Json(JTag("list")), Json(JInt(5)), Json(JEmptyObject),
     Json(JObject(JInt(0 - 4))), Json(JObject(JInt(7))),
     Json(JObject(JFloat(3))), Json(JObject(JTag("inf"))),
     Json(JObject(JStr(12))), Json(JObject(JStr(None))),
     Json(JObject(JTag("null"))), Json(JObject(JTag("list")))}

\* the arguments the methods are called with
StartArgs == {0 - 1, 3}
CostArgs == {0 - 1, 2}
LineArgs == {1}
BingoArgs == {None, 0 - 2, 3}
Amounts == {0 - 1, 0, 1, 3}
Values == {0 - 2, 0, 5}
Deltas == {0 - 3, 2}
Quantities == {0, 1, 2}

\* the manager and its file as one record
Mgr == [storage |-> storage,
        _balance |-> _balance,
        _starting_balance |-> _starting_balance,
        ticket_cost |-> ticket_cost,
        line_prize |-> line_prize,
        bingo_prize |-> bingo_prize]

InitWallet ==
    /\ FactoryIdle
    /\ NoWinCheck
    /\ NoDrawer
    /\ storage \in Records
    /\ NoManager
    /\ NoDemo

\* BalanceManager(storage_path, sb, tc, lp, bp) on the file as it is
Construct(sb, tc, lp, bp) ==
    \E m \in {NewBalanceManager(storage, sb, tc, lp, bp)} :
       /\ _balance' = m._balance
       /\ _starting_balance' = m._starting_balance
       /\ ticket_cost' = m.ticket_cost
       /\ line_prize' = m.line_prize
       /\ bingo_prize' = m.bingo_prize

OpenWallet(sb, tc, lp, bp) ==
    /\ Construct(sb, tc, lp, bp)
    /\ wop' = "__init__"
    /\ warg' = None
    /\ wexc' = "none"
    /\ wret' = None
    /\ wrote' = FALSE
    /\ UNCHANGED <<storage, session, factoryVars, winVars, drawerVars, demoVars>>

\* the method name has been called with argument a and has ended as r says
Called(name, a, r) ==
    /\ wop # "none"
    /\ r.m._balance <= MaxBalance
    /\ wop' = name
    /\ warg' = a
    /\ wexc' = r.exc
    /\ wret' = r.ret
    /\ wrote' = r.wrote
    /\ storage' = r.m.storage
    /\ _balance' = r.m._balance
    /\ UNCHANGED configVars

WalletIdle == UNCHANGED <<session, factoryVars, winVars, drawerVars, demoVars>>

GetBalance ==
    /\ \E r \in {get_balance(Mgr)} : Called("get_balance", None, r)
    /\ WalletIdle

SetBalance(v) ==
    /\ \E r \in {set_balance(Mgr, v)} : Called("set_balance", v, r)
    /\ WalletIdle

AdjustBalance(d) ==
    /\ \E r \in {adjust_balance(Mgr, d)} : Called("adjust_balance", d, r)
    /\ WalletIdle

Reset ==
    /\ \E r \in {reset(Mgr)} : Called("reset", None, r)
    /\ WalletIdle

CanAffordTicket(q) ==
    /\ \E r \in {can_afford_ticket(Mgr, q)} : Called("can_afford_ticket", q, r)
    /\ WalletIdle

SpendForTickets(q) ==
    /\ \E r \in {spend_for_tickets(Mgr, q)} : Called("spend_for_tickets", q, r)
    /\ WalletIdle

AwardLine ==
    /\ \E r \in {award_line(Mgr)} : Called("award_line", None, r)
    /\ WalletIdle

AwardBingo ==
    /\ \E r \in {award_bingo(Mgr)} : Called("award_bingo", None, r)
    /\ WalletIdle

Deposit(a) ==
    /\ \E r \in {deposit(Mgr, a)} : Called("deposit", a, r)
    /\ WalletIdle

Withdraw(a) ==
    /\ \E r \in {withdraw(Mgr, a)} : Called("withdraw", a, r)
    /\ WalletIdle

\* ------------------------------------------------------------------------
\* Two sessions on one wallet file (tests/test_sprint2_endless.py,
\* test_endless_mode_simulation_persistent_balance)
\* ------------------------------------------------------------------------
\* the first manager is built on a path where no file is
SessionOpen(sb, tc, lp, bp) ==
    /\ session.phase = "none"
    /\ storage = Absent
    /\ Construct(sb, tc, lp, bp)
    /\ wop' = "__init__"
    /\ warg' = None
    /\ wexc' = "none"
    /\ wret' = None
    /\ wrote' = FALSE
    /\ session' = [phase |-> "first", start |-> _starting_balance', cost |-> ticket_cost',
                   prize |-> bingo_prize', n |-> 0, m |-> 0]
    /\ UNCHANGED <<storage, factoryVars, winVars, drawerVars, demoVars>>

\* manager.spend_for_tickets(); a call that returns is counted in session.n
SessionSpend ==
    /\ session.phase = "first"
    /\ session.n + session.m < MaxSessionCalls
    /\ \E r \in {spend_for_tickets(Mgr, 1)} :
          /\ Called("spend_for_tickets", 1, r)
          /\ session' = IF r.exc = "none" THEN [session EXCEPT !.n = @ + 1] ELSE session
    /\ UNCHANGED <<factoryVars, winVars, drawerVars, demoVars>>

\* manager.award_bingo(), counted in session.m
SessionAward ==
    /\ session.phase = "first"
    /\ session.n + session.m < MaxSessionCalls
    /\ \E r \in {award_bingo(Mgr)} :
          /\ Called("award_bingo", None, r)
          /\ session' = IF r.exc = "none" THEN [session EXCEPT !.m = @ + 1] ELSE session
    /\ UNCHANGED <<factoryVars, winVars, drawerVars, demoVars>>

\* reloaded = BalanceManager(storage_path=storage, starting_balance=sb, ...);
\* reloaded.get_balance()
SessionReload(sb, tc, lp, bp) ==
    /\ session.phase = "first"
    /\ \E m \in {NewBalanceManager(storage, sb, tc, lp, bp)} :
          \E r \in {get_balance(m)} :
             /\ wop' = "get_balance"
             /\ warg' = None
             /\ wexc' = r.exc
             /\ wret' = r.ret
             /\ wrote' = r.wrote
             /\ storage' = r.m.storage
             /\ _balance' = r.m._balance
             /\ _starting_balance' = m._starting_balance
             /\ ticket_cost' = m.ticket_cost
             /\ line_prize' = m.line_prize
             /\ bingo_prize' = m.bingo_prize
    /\ session' = [session EXCEPT !.phase = "second"]
    /\ UNCHANGED <<factoryVars, winVars, drawerVars, demoVars>>

\* ------------------------------------------------------------------------
\* play_interactive_demo (main.py), one action from each prompt to the next
\* ------------------------------------------------------------------------
\* what the player may type
StartInputs == {Empty, Text, Number(0), Number(1)}
FundsInputs == {"e", ""}
DepositInputs == {Text, Number(0), Number(2)}
MarkInputs == {"y", "n"}
ClaimInputs == {"", "l", "b"}
ChoiceInputs == {"e", "r"}

\* the sources random.Random() gives generate_unique_tickets(2) in the demo
DemoTicketSources == {Seeded(2)}

\* what generate_unique_tickets(2) returns or raises in the demo, for each of
\* these sources
DemoTickets ==
    {MainGenerateUniqueTickets(r0, 2, DefaultMaxAttemptsPerTicket) : r0 \in DemoTicketSources}

\* the shuffled pool and the source of a NumberDrawer(): random.Random(None)
\* and the shuffle of reset
DemoFresh == {MainFresh(r1) : r1 \in Random(None)}

\* the numbers of the player's ticket that were drawn and are not marked
Missed(ms) == (drawn_set \cap ticket_numbers_set(player_ticket)) \ ms

\* the demo is called: the starting wallet is read
DemoStart(inp) ==
    /\ at = "none"
    /\ wallet' = StartingWallet(inp)
    /\ IF wallet' < TICKET_COST
       THEN at' = "finished" /\ UNCHANGED session_active
       ELSE at' = "top" /\ session_active' = TRUE
    /\ UNCHANGED <<player_ticket, bot_ticket, drawn_set, player_marked_set,
                   line_claimed_by, bingo_claimed_by, answer, paid, rounds>>
    /\ UNCHANGED <<factoryVars, winVars, drawerVars, walletVars>>

\* the head of the session loop: the wallet is looked at
RoundTop ==
    /\ at = "top"
    /\ at' = IF wallet < TICKET_COST THEN "funds" ELSE "buy"
    /\ UNCHANGED <<wallet, session_active, player_ticket, bot_ticket, drawn_set,
                   player_marked_set, line_claimed_by, bingo_claimed_by, answer, paid,
                   rounds>>
    /\ UNCHANGED <<factoryVars, winVars, drawerVars, walletVars>>

\* "Press 'e' to exit or press Enter to deposit and continue"
FundsAnswer(resp) ==
    /\ at = "funds"
    /\ at' = IF resp = "e" THEN "finished" ELSE "deposit"
    /\ UNCHANGED <<wallet, session_active, player_ticket, bot_ticket, drawn_set,
                   player_marked_set, line_claimed_by, bingo_claimed_by, answer, paid,
                   rounds>>
    /\ UNCHANGED <<factoryVars, winVars, drawerVars, walletVars>>

\* "Enter deposit amount"
DepositAnswer(inp) ==
    /\ at = "deposit"
    /\ IF inp.kind # "int"
       THEN /\ at' = "finished"
            /\ UNCHANGED wallet
       ELSE /\ wallet' = Deposited(wallet, inp.v)
            /\ at' = IF wallet' < TICKET_COST THEN "finished" ELSE "buy"
    /\ UNCHANGED <<session_active, player_ticket, bot_ticket, drawn_set,
                   player_marked_set, line_claimed_by, bingo_claimed_by, answer, paid,
                   rounds>>
    /\ UNCHANGED <<factoryVars, winVars, drawerVars, walletVars>>

\* a ticket is bought, the two tickets and the drawer of the round are made and
\* the round's sets and claims are cleared
Buy ==
    /\ at = "buy"
    /\ rounds < MaxRounds
    /\ rounds' = rounds + 1
    /\ wallet' = wallet - TICKET_COST
    /\ \E u \in DemoTickets :
          IF u.status # "return"
          THEN /\ at' = "raised"
               /\ UNCHANGED <<player_ticket, bot_ticket, drawn_set, player_marked_set,
                              line_claimed_by, bingo_claimed_by, drawerVars>>
          ELSE /\ player_ticket' = u.tickets[1]
               /\ bot_ticket' = u.tickets[2]
               /\ drawer' = "main"
               /\ arg' = None
               /\ _seed' = None
               /\ \E f \in DemoFresh :
                     /\ _pool' = f.val
                     /\ _rnd' = f.rnd
               /\ _drawn' = <<>>
               /\ ret' = None
               /\ raised' = FALSE
               /\ calls' = 0
               /\ drawn_set' = {}
               /\ player_marked_set' = {}
               /\ line_claimed_by' = "none"
               /\ bingo_claimed_by' = "none"
               /\ at' = "draw"
    /\ UNCHANGED <<session_active, answer, paid>>
    /\ UNCHANGED <<factoryVars, winVars, walletVars>>

\* the head of the round loop: n = drawer.draw_next(); drawn_set.add(n)
DemoDraw ==
    /\ at = "draw"
    /\ \E d \in {DrawNextBody(_pool, _drawn)} :
          /\ _pool' = d.pool
          /\ _drawn' = d.drawn
          /\ ret' = d.ret
          /\ raised' = d.raised
          /\ IF d.raised
             THEN /\ at' = "top"
                  /\ UNCHANGED drawn_set
             ELSE /\ at' = "mark"
                  /\ drawn_set' = drawn_set \cup {d.ret}
    /\ calls' = calls + 1
    /\ UNCHANGED <<drawer, arg, _seed, _rnd>>
    /\ UNCHANGED <<wallet, session_active, player_ticket, bot_ticket, player_marked_set,
                   line_claimed_by, bingo_claimed_by, answer, paid, rounds>>
    /\ UNCHANGED <<factoryVars, winVars, walletVars>>

\* "Do you have n on your ticket? (y/n)", then the line checks and the bot's
\* line claim
MarkAnswer(mark_resp) ==
    /\ at = "mark"
    /\ answer' = mark_resp
    /\ player_marked_set' = MarkBody(player_ticket, player_marked_set, ret, mark_resp)
    /\ Cardinality(Missed(player_marked_set')) <= MaxMisses
    /\ line_claimed_by' = BotLineClaim(bot_ticket, drawn_set, line_claimed_by)
    /\ at' = "claim"
    /\ UNCHANGED <<wallet, session_active, player_ticket, bot_ticket, drawn_set,
                   bingo_claimed_by, paid, rounds>>
    /\ UNCHANGED <<factoryVars, winVars, drawerVars, walletVars>>

\* "Claim? (Enter=continue, l=claim Line, b=claim Bingo)"
ClaimAnswer(resp) ==
    /\ at = "claim"
    /\ answer' = resp
    /\ \E c \in {ClaimBody(player_ticket, bot_ticket, player_marked_set, drawn_set,
                           line_claimed_by, bingo_claimed_by, wallet, resp)} :
          /\ at' = c.next
          /\ line_claimed_by' = c.line_claimed_by
          /\ bingo_claimed_by' = c.bingo_claimed_by
          /\ wallet' = c.wallet
          /\ paid' = c.paid
    /\ UNCHANGED <<session_active, player_ticket, bot_ticket, drawn_set, player_marked_set,
                   rounds>>
    /\ UNCHANGED <<factoryVars, winVars, drawerVars, walletVars>>

\* "Press 'e' to end this game, or 'r' to repeat again"
DemoChoice(choice) ==
    /\ at = "choice"
    /\ answer' = choice
    /\ IF choice = "e"
       THEN session_active' = FALSE /\ at' = "finished"
       ELSE UNCHANGED session_active /\ at' = "top"
    /\ UNCHANGED <<wallet, player_ticket, bot_ticket, drawn_set, player_marked_set,
                   line_claimed_by, bingo_claimed_by, paid, rounds>>
    /\ UNCHANGED <<factoryVars, winVars, drawerVars, walletVars>>

\* ------------------------------------------------------------------------
\* Specifications
\* ------------------------------------------------------------------------
Next ==
    \/ \E sd \in SeedArgs : MainTicket(sd)
    \/ \E sd \in SeedArgs : GameTicket(sd)
    \/ \E n \in CountArgs, sd \in SeedArgs, m \in AttemptArgs : MainUnique(n, sd, m)
    \/ \E n \in CountArgs, sd \in SeedArgs : GameUnique(n, sd)
    \/ MainWhile
    \/ MainWhileExhausted
    \/ GameWhile
    \/ GameWhileEnd
    \/ GameDistribute
    \/ GameFinish

Spec == Init /\ [][Next]_vars

\* game.py's ticket factory, where a call that is in its distribution loop
\* keeps running: the next pass of the loop is not held up forever
NextTerm ==
    \/ \E sd \in SeedArgs : GameTicket(sd)
    \/ \E n \in CountArgs, sd \in SeedArgs : GameUnique(n, sd)
    \/ GameWhile
    \/ GameWhileEnd
    \/ GameDistribute
    \/ GameFinish

SpecTerm == Init /\ [][NextTerm]_vars /\ WF_vars(GameDistribute)

\* the ticket factory, with a finished call of generate_unique_tickets repeated
NextDet ==
    \/ Next
    \/ \E m \in AttemptArgs : Replay(m)

SpecDet == Init /\ [][NextDet]_vars

\* the win checks
NextWin == \E n \in Markable(grid) : Mark(n)

SpecWin == InitWin /\ [][NextWin]_vars

\* game.py's generate_ticket_9x3 from the end of its distribution loop, for
\* every vector of column counts the loop can end with
CountVectors ==
    {v \in [Cols -> MIN_PER_COL .. MAX_PER_COL] : SumOver(v, Cols) = TARGET_NUMBERS}

InitAssign ==
    /\ variant = "game"
    /\ op = "generate_ticket_9x3"
    /\ pc = "distribute"
    /\ seed = None
    /\ count = 0
    /\ max_attempts_per_ticket = 0
    /\ rnd \in {[r EXCEPT !.pos = (6 % Len(r.script)) + 1, !.used = TRUE] : r \in Random(None)}
    /\ counts \in CountVectors
    /\ remaining = 0
    /\ ticket = NoGrid
    /\ tickets = <<>>
    /\ seen = {}
    /\ attempts = 0
    /\ i = 0
    /\ passes = 0
    /\ outcome = "none"
    /\ prev = NoCall
    /\ NoWinCheck /\ NoDrawer /\ NoWallet /\ NoDemo

SpecAssign == InitAssign /\ [][GameFinish]_vars

\* the interactive demo
NextDemo ==
    \/ \E inp \in StartInputs : DemoStart(inp)
    \/ RoundTop
    \/ \E resp \in FundsInputs : FundsAnswer(resp)
    \/ \E inp \in DepositInputs : DepositAnswer(inp)
    \/ Buy
    \/ DemoDraw
    \/ \E mark_resp \in MarkInputs : MarkAnswer(mark_resp)
    \/ \E resp \in ClaimInputs : ClaimAnswer(resp)
    \/ \E choice \in ChoiceInputs : DemoChoice(choice)

SpecDemo == Init /\ [][NextDemo]_vars

\* the number drawer
NextDrawer ==
    \/ \E sd \in SeedArgs : MainDrawerNew(sd)
    \/ \E sd \in SeedArgs : MainDrawerReset(sd)
    \/ \E sd \in SeedArgs : GameDrawerNew(sd)
    \/ DrawNext

SpecDrawer == Init /\ [][NextDrawer]_vars

\* main.py's generate_ticket_9x3 called again and again on one given source
NextGen ==
    \/ \E r \in GivenSources : MainTicketFrom(r)
    \/ MainTicketAgain

SpecGen == Init /\ [][NextGen]_vars

\* a ticket of game.py, then a round on a drawer preset with its numbers
NextRound ==
    \/ \E sd \in SeedArgs : RoundTicket(sd)
    \/ GameWhile
    \/ GameWhileEnd
    \/ GameDistribute
    \/ GameFinish
    \/ \E k \in 0 .. TARGET_NUMBERS - 1 : Preset(k)
    \/ DrawAndCheck

SpecRound == Init /\ [][NextRound]_vars

\* a manager on a file that may hold anything, and calls of its methods
NextWallet ==
    \/ \E sb \in StartArgs, tc \in CostArgs, lp \in LineArgs, bp \in BingoArgs :
          OpenWallet(sb, tc, lp, bp)
    \/ GetBalance
    \/ \E v \in Values : SetBalance(v)
    \/ \E d \in Deltas : AdjustBalance(d)
    \/ Reset
    \/ \E q \in Quantities : CanAffordTicket(q)
    \/ \E q \in Quantities : SpendForTickets(q)
    \/ AwardLine
    \/ AwardBingo
    \/ \E a \in Amounts : Deposit(a)
    \/ \E a \in Amounts : Withdraw(a)

SpecWallet == InitWallet /\ [][NextWallet]_vars

\* a first manager on a new path spends and wins, a second one reloads the file
NextSession ==
    \/ \E sb \in StartArgs, tc \in CostArgs, lp \in LineArgs, bp \in BingoArgs :
          SessionOpen(sb, tc, lp, bp)
    \/ SessionSpend
    \/ SessionAward
    \/ \E sb \in StartArgs, tc \in CostArgs, lp \in LineArgs, bp \in BingoArgs :
          SessionReload(sb, tc, lp, bp)

SpecSession == Init /\ [][NextSession]_vars

\* ------------------------------------------------------------------------
\* Properties
\* ------------------------------------------------------------------------
\* every grid generate_ticket_9x3 has handed out in the running call
ReturnedGrids ==
    (IF ticket = NoGrid THEN {} ELSE {ticket}) \cup {tickets[k] : k \in DOMAIN tickets}

FilledInRow(g, r) == {c \in Cols : g[r][c] # None}
FilledInCol(g, c) == {r \in Rows : g[r][c] # None}
FilledCells(g) == {rc \in Rows \X Cols : g[rc[1]][rc[2]] # None}

\* C1: every grid generate_ticket_9x3 returns (main.py and game.py) is 3 rows
\* by 9 columns with exactly 15 filled cells, exactly 5 in each row and
\* between 1 and 3 in each column.
C1_TicketShape ==
    \A g \in ReturnedGrids :
        /\ DOMAIN g = Rows
        /\ \A r \in Rows : DOMAIN g[r] = Cols
        /\ Cardinality(FilledCells(g)) = 15
        /\ \A r \in Rows : Cardinality(FilledInRow(g, r)) = 5
        /\ \A c \in Cols : Cardinality(FilledInCol(g, c)) \in 1 .. 3

\* main.py returned a grid after discarding a first attempt whose placement failed
C1_Witness ==
    /\ pc = "done" /\ variant = "main" /\ outcome = "return"
    /\ seed # None
    /\ ticket # NoGrid
    /\ ~MainAttempt(Seeded(seed)).ok

\* C2 as stated: a filled cell of column c holds a value of [10c+1, 10c+10),
\* column 0 from 1 and column 8 up to 90.
C2_RangeAsStated ==
    \A g \in ReturnedGrids : \A r \in Rows, c \in Cols :
        g[r][c] # None =>
            /\ 10 * c + 1 <= g[r][c]
            /\ IF c = 8 THEN g[r][c] <= 90 ELSE g[r][c] < 10 * c + 10

\* C2 amended: a filled cell of column c holds a value of 10c .. 10c+9, except
\* that column 0 holds 1..9 and column 8 holds 80..90.
C2_RangeOfTable ==
    \A g \in ReturnedGrids : \A r \in Rows, c \in Cols :
        g[r][c] # None =>
            /\ (IF c = 0 THEN 1 ELSE 10 * c) <= g[r][c]
            /\ g[r][c] <= (IF c = 8 THEN 90 ELSE 10 * c + 9)

\* a returned grid holds the multiple of ten that opens its column
C2_Witness ==
    /\ pc = "done" /\ outcome = "return"
    /\ \E g \in ReturnedGrids : \E r \in Rows, c \in 1 .. 8 : g[r][c] = 10 * c

RangeSet(c) == {ColRange(c)[k] : k \in DOMAIN ColRange(c)}

\* C3: every filled cell of column c holds a value of that column's range of
\* the table; the nine ranges are pairwise disjoint and cover exactly 1..90;
\* the numbers of a ticket are 15 distinct values of 1..90.
C3_NumbersFromTable ==
    /\ \A c, d \in Cols : c # d => RangeSet(c) \cap RangeSet(d) = {}
    /\ UNION {RangeSet(c) : c \in Cols} = 1 .. 90
    /\ \A g \in ReturnedGrids :
        /\ \A r \in Rows, c \in Cols : g[r][c] # None => g[r][c] \in RangeSet(c)
        /\ Cardinality(ticket_numbers_set(g)) = 15
        /\ ticket_numbers_set(g) \subseteq 1 .. 90

\* a returned grid with a column of three numbers
C3_Witness ==
    /\ pc = "done" /\ outcome = "return"
    /\ \E g \in ReturnedGrids : \E c \in Cols : Cardinality(FilledInCol(g, c)) = 3

\* C4: in every generated ticket the filled values of each column increase
\* strictly from the top row to the bottom row.
C4_ColumnsIncrease ==
    \A g \in ReturnedGrids : \A c \in Cols : \A r1, r2 \in Rows :
        (r1 < r2 /\ g[r1][c] # None /\ g[r2][c] # None) => g[r1][c] < g[r2][c]

\* main.py returned a grid one of whose columns got its numbers from sample in
\* an order other than ascending
C4_Witness ==
    /\ pc = "done" /\ variant = "main" /\ op = "generate_ticket_9x3"
    /\ outcome = "return" /\ seed # None
    /\ LET d == MainDistribute(Seeded(seed), [c \in Cols |-> MIN_PER_COL], 6)
           n == SampleColumnsUnsorted(d.rnd, d.counts, 0, <<>>)
       IN \E c \in Cols : Len(n.val[c]) > 1 /\ n.val[c] # Sorted(n.val[c])

Budget == IF variant = "main" THEN max_attempts_per_ticket
          ELSE count * GameAttemptsPerTicket

\* C5: whenever generate_unique_tickets returns it returns exactly count
\* tickets whose number sets are pairwise distinct; it never takes more
\* candidates than its budget, and it raises only while the list is short.
C5_UniqueOrRaise ==
    (op = "generate_unique_tickets" /\ pc # "idle") =>
        /\ attempts <= Budget \/ count = 0
        /\ \A a, b \in DOMAIN tickets :
              a # b => ticket_numbers_set(tickets[a]) # ticket_numbers_set(tickets[b])
        /\ Len(tickets) <= count
        /\ pc = "done" =>
              /\ outcome \in {"return", "RuntimeError", "AssertionError"}
              /\ outcome = "return" <=> Len(tickets) = count

\* game.py used up its 50 * count candidates with one ticket in hand and raised
C5_Witness ==
    /\ pc = "done" /\ variant = "game" /\ op = "generate_unique_tickets"
    /\ count = 2 /\ Len(tickets) = 1
    /\ attempts = 2 * GameAttemptsPerTicket
    /\ outcome = "RuntimeError"

C7_ZeroCount ==
    (op = "generate_unique_tickets" /\ count = 0 /\ pc # "idle") =>
        /\ pc \in {"game_while", "done"}
        /\ ticket = NoGrid
        /\ tickets = <<>>
        /\ ~rnd.used
        /\ pc = "done" => outcome = "return"

\* game.py has built its random source and returned the empty list
C7_Witness ==
    /\ pc = "done" /\ variant = "game" /\ op = "generate_unique_tickets"
    /\ count = 0 /\ outcome = "return" /\ rnd # NoRnd

\* the rows of the ticket under check whose numbers are all marked
CompleteRows ==
    {r \in Rows : \A c \in Cols : grid[r][c] # None => grid[r][c] \in marked}

\* C8: check_line_complete returns the lowest row whose non-empty cells are
\* all marked, and None exactly when no row is.
C8_LowestCompleteRow ==
    /\ line = None <=> CompleteRows = {}
    /\ CompleteRows # {} =>
          /\ line \in CompleteRows
          /\ \A r \in CompleteRows : line <= r

\* rows 1 and 2 are complete, row 0 is not, and row 1 is reported
C8_Witness ==
    /\ CompleteRows = {1, 2}
    /\ line = 1

\* the numbers in the cells of the ticket under check
CellNumbers == {grid[r][c] : r \in Rows, c \in Cols} \ {None}

\* C9: check_bingo_complete is true iff each of the 15 numbers of the ticket
\* is marked, and the scan of main.py and the subset test of game.py agree.
C9_BingoIffAllMarked ==
    /\ Cardinality(CellNumbers) = TARGET_NUMBERS
    /\ bingo_main <=> CellNumbers \subseteq marked
    /\ bingo_game <=> bingo_main

\* one number of the ticket is still missing (and a number that is not on the
\* ticket is marked): both checks say no
C9_Witness ==
    /\ Cardinality(CellNumbers \ marked) = 1
    /\ marked \ CellNumbers # {}
    /\ ~bingo_main /\ ~bingo_game

\* C10: on a drawer that has just been created or reset, each of the first 90
\* calls of draw_next returns a number of 1..90 that no earlier call returned,
\* the 90th call leaves the pool empty, and the 91st call raises StopIteration.
C10_NinetyDraws ==
    drawer # "none" =>
        /\ calls <= 90 =>
              /\ ~raised
              /\ Len(_drawn) = calls
              /\ Len(_pool) = 90 - calls
              /\ calls > 0 => ret = _drawn[calls]
              /\ \A j \in 1 .. calls : _drawn[j] \in 1 .. 90
              /\ \A j, k \in 1 .. calls : j # k => _drawn[j] # _drawn[k]
        /\ calls = 90 => _pool = <<>>
        /\ calls > 90 => raised /\ ret = None /\ Len(_drawn) = 90

\* the 91st call on a main.py drawer that was reset with another seed than the
\* one it was created with
C10_Witness ==
    /\ drawer = "main" /\ calls = 91 /\ raised
    /\ _seed = 1 /\ _drawn # MainFreshPool(Seeded(1))

\* C11: draw_next on an empty pool raises StopIteration, returns no number and
\* leaves drawn() and the (empty) pool as they were, so the next draw_next
\* raises again.
C11_ExhaustionTerminal ==
    [][(drawer # "none" /\ calls' = calls + 1 /\ _pool = <<>>)
          => (raised' /\ ret' = None /\ _drawn' = _drawn /\ _pool' = <<>>)]_vars

\* the second draw_next in a row that raised on a game.py drawer
C11_Witness ==
    /\ drawer = "game" /\ calls = 92 /\ raised /\ ret = None
    /\ Len(_drawn) = 90 /\ _pool = <<>>

\* C12: main.py's generate_ticket_9x3 returns a grid only from a pass (one of
\* at most 1000) that placed all nine columns and used up the three row
\* capacities, so the grid has 5 numbers in every row and 1 to 3 in every
\* column; when it raises RuntimeError all 1000 passes have failed and no grid
\* is handed out.
C12_NoPartialGrid ==
    (variant = "main" /\ op = "generate_ticket_9x3" /\ pc = "done") =>
        /\ outcome \in {"return", "RuntimeError"}
        /\ outcome = "return" =>
              /\ passes \in 1 .. TicketAttempts
              /\ ticket # NoGrid
              /\ \A r \in Rows : Cardinality(FilledInRow(ticket, r)) = TARGET_NUMBERS \div ROWS
              /\ \A c \in Cols : Cardinality(FilledInCol(ticket, c)) \in MIN_PER_COL .. MAX_PER_COL
        /\ outcome = "RuntimeError" => passes = TicketAttempts /\ ticket = NoGrid

\* all 1000 passes failed and the call raised
C12_Witness ==
    /\ variant = "main" /\ op = "generate_ticket_9x3" /\ pc = "done"
    /\ outcome = "RuntimeError" /\ passes = TicketAttempts
    /\ rnd.used

\* C13: on a drawer whose pool starts with the 15 numbers of the ticket in some
\* order, followed by the other 75, check_bingo_complete on the numbers drawn
\* so far is never true before every number of the ticket is drawn and is true
\* from the 15th draw on.
C13_BingoWithinFifteen ==
    (drawer = "game" /\ grid # NoGrid) =>
        /\ marked = {_drawn[j] : j \in DOMAIN _drawn}
        /\ bingo_game => CellNumbers \subseteq marked
        /\ calls < TARGET_NUMBERS => ~bingo_game
        /\ calls >= TARGET_NUMBERS => bingo_game

\* the 15th draw has completed a ticket whose numbers were not drawn in
\* ticket order
C13_Witness ==
    /\ drawer = "game" /\ grid # NoGrid
    /\ calls = TARGET_NUMBERS /\ bingo_game
    /\ _drawn # _flatten_ticket_nums(grid)
    /\ Len(_pool) = 75

\* C14: the balance is never negative: not in memory, not as get_balance
\* returns it, and not as any method writes it to the file.
C14_BalanceNonNegative ==
    /\ _balance # None => _balance >= 0
    /\ (wop = "get_balance" /\ wexc = "none") => wret >= 0
    /\ (wop \notin {"none", "__init__", "can_afford_ticket"} /\ wexc = "none") => wret >= 0
    /\ wrote => /\ storage.kind = "json"
                /\ storage.data.t = "object"
                /\ storage.data.has
                /\ storage.data.balance.t = "int"
                /\ storage.data.balance.v >= 0

\* get_balance has returned 0 for a file that holds a negative balance
C14_Witness ==
    /\ wop = "get_balance" /\ wexc = "none" /\ wret = 0
    /\ storage = Json(JObject(JInt(0 - 4)))

\* what get_balance would answer in the current state
Observed == [exc |-> get_balance(Mgr).exc, ret |-> get_balance(Mgr).ret]

\* C15: deposit and withdraw of an amount <= 0, withdraw of more than the
\* balance and spend_for_tickets(q) with a balance below ticket_cost * max(1, q)
\* raise ValueError, and a call that ends so leaves the file and the balance
\* as they were.
C15_RejectedUnchanged ==
    [][/\ (wop' \in {"deposit", "withdraw"} /\ warg' <= 0) => wexc' = "ValueError"
       /\ (wop' = "withdraw" /\ warg' > 0
             /\ Observed.exc = "none" /\ Observed.ret < warg')
            => wexc' = "ValueError"
       /\ (wop' = "spend_for_tickets"
             /\ Observed.exc = "none"
             /\ Observed.ret < ticket_cost * (IF warg' < 1 THEN 1 ELSE warg'))
            => wexc' = "ValueError"
       /\ (wop' \in {"deposit", "withdraw", "spend_for_tickets"}
             /\ wexc' = "ValueError")
            => (storage' = storage /\ Observed' = Observed /\ ~wrote')]_vars

\* a withdraw of more than the balance was rejected on a manager that had to
\* load a negative balance from the file to find that out
C15_Witness ==
    /\ wop = "withdraw" /\ warg > 0 /\ wexc = "ValueError"
    /\ storage = Json(JObject(JInt(0 - 4)))
    /\ _balance = 0

\* the balance the first manager of the session should have left behind
SessionBalance == session.start - session.n * session.cost + session.m * session.prize

\* C16 as stated: after n spend_for_tickets() calls that returned and m
\* award_bingo() calls of the first manager, n and m of any size, a new manager
\* on the same path reports starting_balance - n * ticket_cost + m * bingo_prize
\* of the first manager.
C16_ReloadAsStated ==
    session.phase = "second" => (wexc = "none" /\ wret = SessionBalance)

\* C16 amended: the same, provided the first manager made at least one of
\* these calls (n + m >= 1).
C16_ReloadAfterACall ==
    (session.phase = "second" /\ session.n + session.m >= 1)
        => (wexc = "none" /\ wret = SessionBalance)

\* the second manager, built with another starting balance, reports what the
\* first one left after a purchase and a prize
C16_Witness ==
    /\ session.phase = "second"
    /\ session.n >= 1 /\ session.m >= 1
    /\ _starting_balance # session.start
    /\ session.cost > 0 /\ session.prize > 0
    /\ wret = SessionBalance

\* the wallet file is absent, is not JSON, is JSON but no object, or is an
\* object whose balance is not an integer
Corrupt(st) ==
    \/ st.kind \in {"absent", "text"}
    \/ st.kind = "json" /\ st.data.t # "object"
    \/ st.kind = "json" /\ st.data.t = "object" /\ st.data.has
          /\ st.data.balance.t # "int"

\* C17: whenever the wallet file is absent or corrupt in any of these ways,
\* get_balance raises nothing and returns the configured starting balance.
C17_CorruptFileRecovered ==
    (wop = "get_balance" /\ Corrupt(storage))
        => (wexc = "none" /\ wret = _starting_balance)

\* C18: at all times remaining_count() is 90 - len(drawn()) and drawn()
\* followed by the pool is a permutation of 1..90; a draw_next that returns n
\* takes n off the front of the pool and appends it to drawn(), one that raises
\* changes neither.
C18_DrawerAccounting ==
    /\ [](drawer # "none" =>
             /\ NumberDrawer_remaining_count = 90 - Len(NumberDrawer_drawn)
             /\ Len(NumberDrawer_drawn \o NumberDrawer_remaining) = 90
             /\ {(NumberDrawer_drawn \o NumberDrawer_remaining)[j] : j \in 1 .. 90}
                   = 1 .. 90)
    /\ [][(drawer # "none" /\ calls' = calls + 1) =>
             IF raised'
             THEN /\ NumberDrawer_remaining = <<>>
                  /\ NumberDrawer_drawn' = NumberDrawer_drawn
                  /\ NumberDrawer_remaining' = NumberDrawer_remaining
             ELSE /\ NumberDrawer_drawn' = Append(NumberDrawer_drawn, ret')
                  /\ NumberDrawer_remaining = <<ret'>> \o NumberDrawer_remaining']_vars

\* a main.py drawer halfway through its pool
C18_Witness ==
    /\ drawer = "main" /\ calls = 45 /\ ~raised
    /\ NumberDrawer_remaining_count = 45 /\ Len(NumberDrawer_drawn) = 45
    /\ NumberDrawer_drawn[45] = ret

\* C19: reset on a main.py drawer, called in any state of the drawer, empties
\* drawn() and leaves a pool of 90 numbers that is a permutation of 1..90; the
\* 90 draws after it succeed and return that pool in order; with an explicit
\* seed the pool is the one that seed alone determines (with no seed, the one
\* the constructor's seed determines), whatever was drawn before.
C19_ResetFresh ==
    /\ [][(drawer = "main" /\ drawer' = "main" /\ calls' = 0) =>
             /\ NumberDrawer_drawn' = <<>>
             /\ NumberDrawer_remaining_count' = 90
             /\ {NumberDrawer_remaining'[j] : j \in 1 .. 90} = 1 .. 90
             /\ ~raised'
             /\ arg' # None => NumberDrawer_remaining' = MainFreshPool(Seeded(arg'))
             /\ (arg' = None /\ _seed' # None) =>
                   NumberDrawer_remaining' = MainFreshPool(Seeded(_seed'))]_vars
    /\ []((drawer = "main" /\ calls <= 90) =>
             /\ ~raised
             /\ Len(NumberDrawer_drawn) = calls
             /\ arg # None =>
                   NumberDrawer_drawn \o NumberDrawer_remaining = MainFreshPool(Seeded(arg))
             /\ calls = 90 => {NumberDrawer_drawn[j] : j \in 1 .. 90} = 1 .. 90)

\* the 90th draw after a drawer created with seed 2 was reset with seed 3: the
\* numbers drawn are the pool of seed 3, which is not the pool of seed 2
C19_Witness ==
    /\ drawer = "main" /\ _seed = 2 /\ arg = 3
    /\ calls = 90 /\ ~raised /\ NumberDrawer_remaining_count = 0
    /\ NumberDrawer_drawn = MainFreshPool(Seeded(3))
    /\ NumberDrawer_drawn # MainFreshPool(Seeded(2))

\* C20: a drawer that has just been constructed (main.py or game.py) has used
\* its random source, and its pool is the shuffle of 1..90 that this source
\* produces from where it started.
C20_FreshPoolShuffled ==
    (drawer # "none" /\ calls = 0) =>
        /\ _rnd.used
        /\ NumberDrawer_remaining
              = MainFreshPool([script |-> _rnd.script, pos |-> 1, used |-> FALSE])

\* C21: the column-count distribution loop of generate_ticket_9x3 ends after a
\* bounded number of choices of the random source, whatever the source chooses:
\* a call that is in the loop leaves it (remaining reaches 0 and the function
\* goes on to return or to signal failure).
C21_GenerationTerminates ==
    (pc = "distribute") ~> (pc # "distribute" \/ remaining = 0)

\* C22: in game.py's generate_ticket_9x3, for every vector of column counts
\* in 1..3 that sums to 15, the assignment loops (columns of count 3, then 2,
\* then 1, each to the least-loaded rows) end with row_counts = [5, 5, 5]: the
\* assertion holds, the function returns, and every row of the grid it returns
\* has 5 numbers.
C22_GreedyBalances ==
    /\ counts \in CountVectors
    /\ GameAssign(counts,
                  ColsByCount(counts, 3) \o ColsByCount(counts, 2) \o ColsByCount(counts, 1),
                  1, [r \in Rows |-> 0], [c \in Cols |-> <<>>]).row_counts
          = [r \in Rows |-> 5]
    /\ pc = "done" =>
          /\ outcome = "return"
          /\ \A r \in Rows : Cardinality(FilledInRow(ticket, r)) = 5
          /\ \A c \in Cols : Cardinality(FilledInCol(ticket, c)) = counts[c]

\* a returned grid for a count vector with columns of count 3, 2 and 1 where
\* the last 2-count column met unequal row counts
C22_Witness ==
    /\ pc = "done" /\ outcome = "return"
    /\ Cardinality({c \in Cols : counts[c] = 3}) = 1
    /\ Cardinality({c \in Cols : counts[c] = 2}) = 4
    /\ counts[0] = 1 /\ counts[8] = 2
    /\ \A r \in Rows : Cardinality(FilledInRow(ticket, r)) = 5

\* the demo is inside a round: from the first draw to the answer at the
\* prompt after a bingo
InRound == at \in {"draw", "mark", "claim", "choice"}

\* C23: in the round loop the player's marked set is always a subset of the
\* numbers drawn in the round and of the numbers on the player's ticket; it
\* changes only by gaining the number just drawn when the player answers "y"
\* and the number is on the player's ticket, it loses no number during a
\* round, and it is empty when a round begins.
C23_MarksWithinDrawnAndTicket ==
    /\ [](InRound =>
             /\ drawn_set = {_drawn[j] : j \in DOMAIN _drawn}
             /\ player_marked_set \subseteq drawn_set
             /\ player_marked_set \subseteq ticket_numbers_set(player_ticket))
    /\ [][/\ rounds' # rounds => (player_marked_set' = {} /\ drawn_set' = {})
          /\ (rounds' = rounds /\ player_marked_set' # player_marked_set) =>
                /\ at = "mark"
                /\ answer' = "y"
                /\ ret = _drawn[Len(_drawn)]
                /\ ret \in ticket_numbers_set(player_ticket)
                /\ player_marked_set' = player_marked_set \cup {ret}]_vars

\* in the second round the player has answered "y" for a number that is not on
\* the ticket and has earlier passed over one that is: neither is marked
C23_Witness ==
    /\ rounds = 2 /\ at = "claim" /\ answer = "y"
    /\ ret \notin ticket_numbers_set(player_ticket)
    /\ ret \notin player_marked_set
    /\ player_marked_set # {}
    /\ Missed(player_marked_set) # {}

\* C24: in a round, once line_claimed_by is "bot" or "player" it does not
\* change; the wallet gains LINE_PRIZE only in a step that answers "l" while
\* the line is unclaimed and the player's marked set completes a row, and that
\* step sets line_claimed_by to "player" (so at most once in a round); when the
\* bot's ticket has a complete line after a draw and the line is unclaimed, the
\* bot has claimed it by the time the player is asked.
C24_LinePrizeOnce ==
    /\ [](at = "claim" =>
             (check_line_complete(bot_ticket, drawn_set) # None => line_claimed_by # "none"))
    /\ [][/\ (rounds' = rounds /\ line_claimed_by # "none") =>
                line_claimed_by' = line_claimed_by
          /\ (at = "mark" /\ line_claimed_by = "none"
                 /\ check_line_complete(bot_ticket, drawn_set) # None) =>
                line_claimed_by' = "bot"
          /\ (rounds' = rounds /\ line_claimed_by' = "player" /\ line_claimed_by # "player") =>
                /\ at = "claim" /\ answer' = "l"
                /\ line_claimed_by = "none"
                /\ check_line_complete(player_ticket, player_marked_set) # None
                /\ wallet' = wallet + LINE_PRIZE
          /\ (InRound /\ wallet' = wallet + LINE_PRIZE) =>
                (line_claimed_by = "none" /\ line_claimed_by' = "player")]_vars

\* the player, who holds the line prize of the round, has answered "l" again
\* after the bot's ticket completed a line too: nothing was paid
C24_Witness ==
    /\ at = "draw" /\ answer = "l" /\ paid = "none"
    /\ line_claimed_by = "player"
    /\ check_line_complete(bot_ticket, drawn_set) # None
    /\ check_line_complete(player_ticket, player_marked_set) # None

\* C25: in a round, once bingo_claimed_by is set it does not change and no
\* number is drawn: the demo waits at the prompt that ends the round; the
\* wallet gains BINGO_PRIZE = 4 x LINE_PRIZE only in the step that sets
\* bingo_claimed_by from unset to "player" (so at most once in a round); when
\* the bot's and the player's tickets are both complete at the bingo check the
\* bot wins and the wallet is unchanged.
C25_BingoEndsRound ==
    /\ [](/\ BINGO_PRIZE = 4 * LINE_PRIZE
          /\ (InRound /\ bingo_claimed_by # "none") => at = "choice")
    /\ [][/\ (InRound /\ bingo_claimed_by # "none") =>
                /\ bingo_claimed_by' = bingo_claimed_by
                /\ _drawn' = _drawn /\ _pool' = _pool /\ drawn_set' = drawn_set
                /\ wallet' = wallet
          /\ (InRound /\ wallet' = wallet + BINGO_PRIZE) =>
                (bingo_claimed_by = "none" /\ bingo_claimed_by' = "player" /\ at' = "choice")
          /\ (at = "claim" /\ answer' # "l"
                 /\ main_check_bingo_complete(player_ticket, player_marked_set)
                 /\ main_check_bingo_complete(bot_ticket, drawn_set)) =>
                (bingo_claimed_by' = "bot" /\ wallet' = wallet /\ at' = "choice")]_vars

\* both tickets were complete at the bingo check: the bot has won it and the
\* player was paid nothing
C25_Witness ==
    /\ at = "choice" /\ bingo_claimed_by = "bot" /\ paid = "none"
    /\ main_check_bingo_complete(player_ticket, player_marked_set)
    /\ main_check_bingo_complete(bot_ticket, drawn_set)

C27_ManualBingoNeverPays ==
    /\ [](/\ paid # "manual"
          /\ (at = "claim" /\ ~AutoBingo(player_ticket, bot_ticket, player_marked_set,
                                         drawn_set, bingo_claimed_by, wallet).found) =>
                /\ bingo_claimed_by = "none"
                /\ ~validate_bingo_claim(player_ticket, player_marked_set)
                /\ ~ManualBingo(player_ticket, player_marked_set, bingo_claimed_by,
                                wallet).ended)
    /\ [][(at = "claim" /\ answer' = "b") =>
             /\ wallet' # wallet => (paid' = "auto" /\ wallet' = wallet + BINGO_PRIZE)
             /\ paid' = "auto" =>
                   main_check_bingo_complete(player_ticket, player_marked_set)]_vars

\* the player, one number short of a full ticket, has answered "b": the claim
\* was judged invalid and the round goes on
C27_Witness ==
    /\ at = "draw" /\ answer = "b" /\ paid = "none" /\ bingo_claimed_by = "none"
    /\ Cardinality(player_marked_set) = 14
    /\ ~main_check_bingo_complete(bot_ticket, drawn_set)

=============================================================================
